---- MODULE Spec2Model ----
(***************************************************************************)
(* A model of jsonschema/validators.py: the validation engine              *)
(* (Validator.iter_errors and the operations built on it), the reference   *)
(* resolver (RefResolver) and the variant registry (validates, create,     *)
(* extend, validator_for).                                                 *)
(*                                                                         *)
(* Strings are sequences of one-character strings, so that stripping,      *)
(* splitting, joining and unescaping are computed and not assumed.  JSON   *)
(* values are tagged records [t, v]; a mapping keeps its items in          *)
(* insertion order, as a Python dict does.                                 *)
(***************************************************************************)
EXTENDS Integers, Sequences, FiniteSets, TLC

----------------------------------------------------------------------------
(* Strings *)

RECURSIVE lstrip(_, _)
lstrip(s, c) ==
    IF s # <<>> /\ Head(s) = c THEN lstrip(Tail(s), c) ELSE s

RECURSIVE rstrip(_, _)
rstrip(s, c) ==
    IF s # <<>> /\ s[Len(s)] = c THEN rstrip(SubSeq(s, 1, Len(s) - 1), c) ELSE s

\* str.find: the first index of c in s, 0 when there is none
find(s, c) ==
    IF \E i \in 1..Len(s) : s[i] = c
    THEN CHOOSE i \in 1..Len(s) : s[i] = c /\ \A j \in 1..(i - 1) : s[j] # c
    ELSE 0

RECURSIVE split(_, _)
split(s, c) ==
    LET i == find(s, c)
    IN  IF i = 0 THEN <<s>>
        ELSE <<SubSeq(s, 1, i - 1)>> \o split(SubSeq(s, i + 1, Len(s)), c)

\* str.replace for a two-character pattern <<a, b>>, left to right
RECURSIVE replace(_, _, _, _)
replace(s, a, b, new) ==
    IF Len(s) < 2 THEN s
    ELSE IF s[1] = a /\ s[2] = b
         THEN new \o replace(SubSeq(s, 3, Len(s)), a, b, new)
         ELSE <<s[1]>> \o replace(Tail(s), a, b, new)

\* the percent escapes the model's inputs use
HexPairs == { <<"2", "5">>, <<"2", "F">>, <<"7", "E">> }

HexChar(p) ==
    IF p = <<"2", "5">> THEN "%" ELSE IF p = <<"2", "F">> THEN "/" ELSE "~"

RECURSIVE unquote(_)
unquote(s) ==
    IF s = <<>> THEN s
    ELSE IF s[1] = "%" /\ Len(s) >= 3 /\ <<s[2], s[3]>> \in HexPairs
         THEN <<HexChar(<<s[2], s[3]>>)>> \o unquote(SubSeq(s, 4, Len(s)))
         ELSE <<s[1]>> \o unquote(Tail(s))

Digits == <<"0", "1", "2", "3", "4", "5", "6", "7", "8", "9">>

IsDigit(c) == \E d \in 1..10 : Digits[d] = c

DigitVal(c) == (CHOOSE d \in 1..10 : Digits[d] = c) - 1

RECURSIVE NatOf(_)
NatOf(s) ==
    IF s = <<>> THEN 0
    ELSE 10 * NatOf(SubSeq(s, 1, Len(s) - 1)) + DigitVal(s[Len(s)])

AllDigits(s) == s # <<>> /\ \A i \in 1..Len(s) : IsDigit(s[i])

\* int(part): an optional sign and decimal digits; ValueError otherwise
IntParses(s) ==
    \/ AllDigits(s)
    \/ Len(s) >= 2 /\ s[1] \in {"-", "+"} /\ AllDigits(Tail(s))

IntOf(s) ==
    IF s[1] = "-" THEN 0 - NatOf(Tail(s))
    ELSE IF s[1] = "+" THEN NatOf(Tail(s))
    ELSE NatOf(s)

----------------------------------------------------------------------------
(* urllib.parse, for URLs of the shape [scheme:][//netloc][path][#fragment] *)

Http == <<"h", "t", "t", "p">>

uses_relative == { <<>>, Http }

uses_netloc == { <<>>, Http }

SchemeChar(c) == c \notin {":", "/", "#", "?"}

\* [scheme, netloc, path, fragment] of a URL; a missing scheme is `default`
urlparse(url, default) ==
    LET netloc(scheme, rest, frag) ==
            LET hasN == Len(rest) >= 2 /\ rest[1] = "/" /\ rest[2] = "/"
                s    == find(SubSeq(rest, 3, Len(rest)), "/")
            IN  [ scheme   |-> scheme,
                  netloc   |-> IF ~hasN THEN <<>>
                               ELSE IF s = 0 THEN SubSeq(rest, 3, Len(rest))
                               ELSE SubSeq(rest, 3, s + 1),
                  path     |-> IF ~hasN THEN rest
                               ELSE IF s = 0 THEN <<>>
                               ELSE SubSeq(rest, s + 2, Len(rest)),
                  fragment |-> frag ]
        scheme(body, c, frag) ==
            IF c > 1 /\ \A i \in 1..(c - 1) : SchemeChar(body[i])
            THEN netloc(SubSeq(body, 1, c - 1), SubSeq(body, c + 1, Len(body)), frag)
            ELSE netloc(default, body, frag)
        fragment(f) ==
            IF f = 0 THEN scheme(url, find(url, ":"), <<>>)
            ELSE scheme(SubSeq(url, 1, f - 1), find(SubSeq(url, 1, f - 1), ":"),
                        SubSeq(url, f + 1, Len(url)))
    IN  fragment(find(url, "#"))

urlunparse(p) ==
    (IF p.scheme # <<>> THEN p.scheme \o <<":">> ELSE <<>>)
    \o (IF p.netloc # <<>> THEN <<"/", "/">> \o p.netloc ELSE <<>>)
    \o p.path
    \o (IF p.fragment # <<>> THEN <<"#">> \o p.fragment ELSE <<>>)

urldefrag(url) ==
    LET f == find(url, "#")
    IN  IF f = 0 THEN [url |-> url, fragment |-> <<>>]
        ELSE [ url      |-> SubSeq(url, 1, f - 1),
               fragment |-> SubSeq(url, f + 1, Len(url)) ]

\* the directory of a path: the path up to and including its last "/"
RECURSIVE dirname(_)
dirname(path) ==
    IF path = <<>> \/ path[Len(path)] = "/" THEN path
    ELSE dirname(SubSeq(path, 1, Len(path) - 1))

urljoin(base, url) ==
    LET join(b, u) ==
            IF u.scheme # b.scheme \/ u.scheme \notin uses_relative THEN url
            ELSE IF u.scheme \in uses_netloc /\ u.netloc # <<>> THEN urlunparse(u)
            ELSE IF u.path = <<>>
                 THEN urlunparse([b EXCEPT !.fragment = u.fragment])
            ELSE IF u.path[1] = "/"
                 THEN urlunparse([b EXCEPT !.path = u.path,
                                           !.fragment = u.fragment])
            ELSE urlunparse([b EXCEPT !.path = dirname(b.path) \o u.path,
                                      !.fragment = u.fragment])
        relative(b) == join(b, urlparse(url, b.scheme))
    IN  IF base = <<>> THEN url
        ELSE IF url = <<>> THEN base
        ELSE relative(urlparse(base, <<>>))

\* _utils.URIDict.normalize: urlsplit(uri).geturl()
normalize(uri) == urlunparse(urlparse(uri, <<>>))

----------------------------------------------------------------------------
(* JSON values *)

Dict(items) == [t |-> "dict", v |-> items]

List(xs) == [t |-> "list", v |-> xs]

Str(s) == [t |-> "str", v |-> s]

Num(n) == [t |-> "int", v |-> n]

JTrue == [t |-> "bool", v |-> TRUE]

JFalse == [t |-> "bool", v |-> FALSE]

Null == [t |-> "null", v |-> 0]

isdict(x) == x.t = "dict"

\* isinstance(x, collections.abc.Sequence): lists, and strings too
isSequence(x) == x.t \in {"list", "str"}

\* key in d, d[key], d.get(key, default) for a mapping d
haskey(d, key) == \E i \in 1..Len(d.v) : d.v[i].k = key

getitem(d, key) == d.v[CHOOSE i \in 1..Len(d.v) : d.v[i].k = key].v

get(d, key, default) == IF haskey(d, key) THEN getitem(d, key) ELSE default

\* Python truthiness of a JSON value
truthy(x) ==
    IF x.t \in {"dict", "list", "str"} THEN x.v # <<>>
    ELSE IF x.t = "int" THEN x.v # 0
    ELSE IF x.t = "bool" THEN x.v
    ELSE FALSE

RECURSIVE concat(_)
concat(ss) == IF ss = <<>> THEN <<>> ELSE Head(ss) \o concat(Tail(ss))

----------------------------------------------------------------------------
(* RefResolver: the functions that read the resolver and change nothing *)

S_id == <<"$", "i", "d">>

S_anchor == <<"$", "a", "n", "c", "h", "o", "r">>

S_dynamicAnchor ==
    <<"$", "d", "y", "n", "a", "m", "i", "c", "A", "n", "c", "h", "o", "r">>

\* every mapping that has `key`, searching the values that are mappings
RECURSIVE finditem(_, _)
finditem(schema, key) ==
    IF isdict(schema)
    THEN (IF haskey(schema, key) THEN <<schema>> ELSE <<>>)
         \o concat([i \in 1..Len(schema.v) |->
                      IF isdict(schema.v[i].v)
                      THEN finditem(schema.v[i].v, key) ELSE <<>>])
    ELSE <<>>

\* a result: exc = "" and the value, or the exception raised
Ok(x) == [exc |-> "", v |-> x]

Raise(e) == [exc |-> e, v |-> Null]

\* document[part] after the int coercion of a part under a Sequence
subscript(document, part) ==
    LET coerced == isSequence(document) /\ IntParses(part)
        n       == IF coerced THEN IntOf(part) ELSE 0
        len     == Len(document.v)
        at      == IF n >= 0 THEN n + 1 ELSE len + n + 1
    IN  IF isdict(document)
        THEN IF haskey(document, part) THEN Ok(getitem(document, part))
             ELSE Raise("RefResolutionError")
        ELSE IF coerced /\ at >= 1 /\ at <= len
        THEN Ok(IF document.t = "str" THEN Str(<<document.v[at]>>)
                ELSE document.v[at])
        ELSE Raise("RefResolutionError")

RECURSIVE walk(_, _)
walk(document, parts) ==
    IF parts = <<>> THEN Ok(document)
    ELSE LET part == replace(replace(Head(parts), "~", "1", <<"/">>),
                             "~", "0", <<"~">>)
             sub  == subscript(document, part)
         IN  IF sub.exc # "" THEN sub ELSE walk(sub.v, Tail(parts))

\* the first mapping of the tree search whose `keyword` is the fragment
anchored(document, fragment, keyword) ==
    LET found == finditem(document, keyword)
        hits  == { i \in 1..Len(found) : getitem(found[i], keyword) = Str(fragment) }
    IN  IF hits = {} THEN <<>>
        ELSE <<found[CHOOSE i \in hits : \A j \in hits : i <= j]>>

resolve_fragment(document, fragment0) ==
    LET fragment == lstrip(fragment0, "/")
        a1 == IF fragment # <<>> THEN anchored(document, fragment, S_anchor)
              ELSE <<>>
        a2 == IF fragment # <<>> THEN anchored(document, fragment, S_dynamicAnchor)
              ELSE <<>>
        parts == IF fragment # <<>> THEN split(unquote(fragment), "/") ELSE <<>>
    IN  IF a1 # <<>> THEN Ok(a1[1])
        ELSE IF a2 # <<>> THEN Ok(a2[1])
        ELSE walk(document, parts)

resolution_scope(r) == r.scopes_stack[Len(r.scopes_stack)]

\* the first subschema with an "$id" that joins to the url, if any
resolve_local(r, url, schema) ==
    LET d     == urldefrag(url)
        found == finditem(schema, S_id)
        first(hits) ==
            IF hits = {} THEN Ok(Null)
            ELSE IF d.fragment # <<>>
            THEN resolve_fragment(found[CHOOSE i \in hits : \A j \in hits : i <= j],
                                  d.fragment)
            ELSE Ok(found[CHOOSE i \in hits : \A j \in hits : i <= j])
    IN  first({ i \in 1..Len(found) :
                  rstrip(urljoin(resolution_scope(r), getitem(found[i], S_id).v), "/")
                    = rstrip(d.url, "/") })

----------------------------------------------------------------------------
(* The inputs: keyword names, URLs, and the documents behind the URLs *)

kv(key, value) == [k |-> key, v |-> value]

S_ref == <<"$", "r", "e", "f">>

S_schema == <<"$", "s", "c", "h", "e", "m", "a">>

S_allOf == <<"a", "l", "l", "O", "f">>

S_properties == <<"p", "r", "o", "p", "e", "r", "t", "i", "e", "s">>

S_type == <<"t", "y", "p", "e">>

S_minimum == <<"m", "i", "n", "i", "m", "u", "m">>

S_if == <<"i", "f">>

S_title == <<"t", "i", "t", "l", "e">>

\* http://a/x, fetched over the network
U_A == Http \o <<":", "/", "/", "a", "/", "x">>

\* x:/b, of a scheme that has a registered handler
U_B == <<"x", ":", "/", "b">>

\* http://s/t/, a URL that ends in a slash
U_S == Http \o <<":", "/", "/", "s", "/", "t", "/">>

Frag(uri, pointer) == uri \o <<"#">> \o pointer

P_dp == <<"/", "d", "/", "p">>

P_dq == <<"/", "d", "/", "q">>

P_dz == <<"/", "d", "/", "z">>

T_integer == Str(<<"i", "n", "t", "e", "g", "e", "r">>)

T_string == Str(<<"s", "t", "r", "i", "n", "g">>)

T_object == Str(<<"o", "b", "j", "e", "c", "t">>)

Doc_A ==
    Dict(<< kv(<<"d">>, Dict(<< kv(<<"p">>, Dict(<< kv(S_minimum, Num(1)) >>)),
                                kv(<<"q">>, Dict(<< kv(S_type, T_string) >>)) >>)) >>)

Doc_B == Dict(<< kv(S_id, Str(U_B)), kv(S_type, T_integer) >>)

Doc_S == Dict(<< kv(S_minimum, Num(2)) >>)

\* the document a fetch of the URL retrieves: <<doc>>, or <<>> when the
\* URL has none and every fetch of it fails
Remote(uri) ==
    IF uri = U_A THEN <<Doc_A>>
    ELSE IF uri = U_B THEN <<Doc_B>>
    ELSE IF uri = U_S THEN <<Doc_S>>
    ELSE <<>>

----------------------------------------------------------------------------
(* RefResolver: construction and the operations that change the resolver.  *)
(* A resolver is a record; an operation returns [exc, v, r]: the exception *)
(* raised ("" for none), the value returned and the resolver afterwards.   *)

\* functools.lru_cache(1024), the default of urljoin_cache and remote_cache
lru_maxsize == 1024

Done(r, x) == [exc |-> "", v |-> x, r |-> r]

Fail(r, e) == [exc |-> e, v |-> Null, r |-> r]

\* _utils.URIDict: a mapping whose keys are normalized URIs
URIDict_get(store, uri) == store[normalize(uri)]

URIDict_has(store, uri) == normalize(uri) \in DOMAIN store

URIDict_set(store, uri, doc) ==
    LET set(key) == [k \in DOMAIN store \cup {key} |-> IF k = key THEN doc ELSE store[k]]
    IN  set(normalize(uri))

RECURSIVE URIDict_update(_, _)
URIDict_update(store, items) ==
    IF items = <<>> THEN store
    ELSE URIDict_update(URIDict_set(store, items[1][1], items[1][2]), Tail(items))

\* RefResolver.__init__; schema_list is _store_schema_list() at that moment,
\* maxsize the size of the remote_cache given (lru_maxsize when none is)
RefResolver(base_uri, referrer, store, cache_remote, handlers, maxsize, schema_list) ==
    [ referrer     |-> referrer,
      cache_remote |-> cache_remote,
      handlers     |-> handlers,
      scopes_stack |-> <<base_uri>>,
      store        |-> URIDict_set(
                           URIDict_update(URIDict_update(<<>>, schema_list), store),
                           base_uri, referrer),
      remote_cache |-> <<>>,
      maxsize      |-> maxsize,
      fetches      |-> <<>> ]

push_scope(r, scope) ==
    IF r.scopes_stack = <<>> THEN Fail(r, "IndexError")
    ELSE Done([r EXCEPT !.scopes_stack =
                   Append(@, urljoin(resolution_scope(r), scope))], Null)

\* a pop_scope that leaves the stack as it is
pop_scope_forgets(r) == Done(r, Null)

\* a pop_scope that fails rather than remove the entry of the base URI
pop_scope_keeps_base(r) ==
    IF Len(r.scopes_stack) <= 1 THEN Fail(r, "RefResolutionError")
    ELSE Done([r EXCEPT !.scopes_stack = SubSeq(@, 1, Len(@) - 1)], Null)

pop_scope(r) ==
    IF r.scopes_stack = <<>> THEN Fail(r, "RefResolutionError")
    ELSE Done([r EXCEPT !.scopes_stack = SubSeq(@, 1, Len(@) - 1)], Null)

\* a resolve_remote that never stores what it fetched
resolve_remote_unstored(r, uri, fetch) ==
    LET result == Remote(uri)
        ok     == fetch = "ok" /\ result # <<>>
        by(scheme) ==
            [r EXCEPT !.fetches =
                Append(@, [ uri |-> uri,
                            via |-> IF scheme \in r.handlers THEN "handler"
                                    ELSE "network",
                            ok  |-> ok ])]
    IN  IF ~ok THEN Fail(by(urlparse(uri, <<>>).scheme), "FetchError")
        ELSE Done(by(urlparse(uri, <<>>).scheme), result[1])

\* resolve_remote; `fetch` is what the handler or the network does this time:
\* "ok" returns the document at the URI (when there is one), "raise" fails
resolve_remote(r, uri, fetch) ==
    LET result == Remote(uri)
        ok     == fetch = "ok" /\ result # <<>>
        fetched(r1) ==
            IF ~ok THEN Fail(r1, "FetchError")
            ELSE Done(IF r1.cache_remote
                      THEN [r1 EXCEPT !.store = URIDict_set(@, uri, result[1])]
                      ELSE r1,
                      result[1])
        by(scheme) ==
            fetched([r EXCEPT !.fetches =
                        Append(@, [ uri |-> uri,
                                    via |-> IF scheme \in r.handlers THEN "handler"
                                            ELSE "network",
                                    ok  |-> ok ])])
    IN  by(urlparse(uri, <<>>).scheme)

\* a resolve_from_url that lets the failure of the fetch through as it is
resolve_from_url_unwrapped(r, url0, fetch) ==
    LET d == urldefrag(url0)
        fragment(got, res) == [exc |-> res.exc, v |-> res.v, r |-> got.r]
        document(got) ==
            IF got.exc # "" THEN got
            ELSE fragment(got, resolve_fragment(got.v, d.fragment))
    IN  document(IF URIDict_has(r.store, d.url)
                 THEN Done(r, URIDict_get(r.store, d.url))
                 ELSE resolve_remote(r, d.url, fetch))

resolve_from_url(r, url0, fetch) ==
    LET d == urldefrag(url0)
        fragment(got, res) == [exc |-> res.exc, v |-> res.v, r |-> got.r]
        document(got) ==
            IF got.exc # "" THEN Fail(got.r, "RefResolutionError")
            ELSE fragment(got, resolve_fragment(got.v, d.fragment))
    IN  document(IF URIDict_has(r.store, d.url)
                 THEN Done(r, URIDict_get(r.store, d.url))
                 ELSE resolve_remote(r, d.url, fetch))

\* a remote_cache that remembers a call that raised as well and answers the
\* next call of the URL from it
remote_cache_keeps_failures(r, url, fetch) ==
    LET c    == r.remote_cache
        hits == { i \in 1..Len(c) : c[i].url = url }
        i    == CHOOSE j \in hits : TRUE
        kept == IF Len(c) >= r.maxsize THEN Tail(c) ELSE c
        miss(res) ==
            IF r.maxsize = 0 THEN res
            ELSE [res EXCEPT !.r.remote_cache =
                      Append(kept, [url |-> url, result |-> res.v])]
    IN  IF r.maxsize > 0 /\ hits # {}
        THEN Done(r, c[i].result)
        ELSE miss(resolve_from_url(r, url, fetch))

\* a remote_cache that remembers nothing
remote_cache_forgets(r, url, fetch) == resolve_from_url(r, url, fetch)

\* the lru_cache around resolve_from_url: a hit returns the remembered
\* result; only a call that returns is remembered, the least recently used
\* entry making room
remote_cache(r, url, fetch) ==
    LET c    == r.remote_cache
        hits == { i \in 1..Len(c) : c[i].url = url }
        i    == CHOOSE j \in hits : TRUE
        kept == IF Len(c) >= r.maxsize THEN Tail(c) ELSE c
        miss(res) ==
            IF res.exc # "" \/ r.maxsize = 0 THEN res
            ELSE [res EXCEPT !.r.remote_cache =
                      Append(kept, [url |-> url, result |-> res.v])]
    IN  IF r.maxsize > 0 /\ hits # {}
        THEN Done([r EXCEPT !.remote_cache =
                       SubSeq(c, 1, i - 1) \o SubSeq(c, i + 1, Len(c)) \o <<c[i]>>],
                  c[i].result)
        ELSE miss(resolve_from_url(r, url, fetch))

resolve(r, ref, fetch) ==
    LET remote(url, far) == [far EXCEPT !.v = [url |-> url, resolved |-> far.v]]
        local(url, match) ==
            IF match.exc # "" THEN Fail(r, match.exc)
            ELSE IF truthy(match.v) THEN Done(r, [url |-> url, resolved |-> match.v])
            ELSE remote(url, remote_cache(r, url, fetch))
        joined(url) == local(url, resolve_local(r, url, r.referrer))
    IN  joined(rstrip(urljoin(resolution_scope(r), ref), "/"))

----------------------------------------------------------------------------
(* Variants: create, validates, extend, and the variants the module makes  *)

S_id_draft3 == <<"i", "d">>

T_number == Str(<<"n", "u", "m", "b", "e", "r">>)

T_array == Str(<<"a", "r", "r", "a", "y">>)

\* the ids of the meta-schemas: http://m/4, http://m/7, http://m/20
U_M4 == Http \o <<":", "/", "/", "m", "/", "4">>

U_M7 == Http \o <<":", "/", "/", "m", "/", "7">>

U_M20 == Http \o <<":", "/", "/", "m", "/", "2", "0">>

\* what a meta-schema says of the keywords of the model
MetaProperties ==
    Dict(<< kv(S_minimum, Dict(<< kv(S_type, T_number) >>)),
            kv(S_allOf, Dict(<< kv(S_type, T_array) >>)),
            kv(S_ref, Dict(<< kv(S_type, T_string) >>)) >>)

Meta_draft4 ==
    Dict(<< kv(S_id_draft3, Str(U_M4)), kv(S_properties, MetaProperties) >>)

Meta_draft7 ==
    Dict(<< kv(S_id, Str(U_M7)), kv(S_properties, MetaProperties) >>)

Meta_draft202012 ==
    Dict(<< kv(S_id, Str(U_M20)), kv(S_properties, MetaProperties) >>)

\* the keyword tables: keyword |-> the name of its callable
Table(keywords, callables) ==
    [k \in { keywords[i] : i \in 1..Len(keywords) } |->
        callables[CHOOSE i \in 1..Len(keywords) : keywords[i] = k]]

Validators_draft4 ==
    Table(<<S_ref, S_allOf, S_properties, S_type, S_minimum>>,
          <<"ref", "allOf", "properties", "type", "minimum">>)

Validators_draft7 ==
    Table(<<S_ref, S_allOf, S_properties, S_type, S_minimum, S_if>>,
          <<"ref", "allOf", "properties", "type", "minimum", "if">>)

\* the class create() returns, before any registration
Validator(meta_schema, vocabulary_schemas, validators, version, type_checker, id_of, applicable_validators) ==
    [ VALIDATORS           |-> validators,
      META_SCHEMA          |-> meta_schema,
      VOCABULARY_SCHEMAS   |-> vocabulary_schemas,
      TYPE_CHECKER         |-> type_checker,
      ID_OF                |-> id_of,
      applicable_validators |-> applicable_validators,
      version              |-> version ]

\* what id_of gives when schema.get raises: the schema is no mapping
AttributeError == [t |-> "AttributeError", v |-> <<>>]

\* _id_of, and the lambda of Draft3Validator and Draft4Validator
id_of(cls, schema) ==
    IF cls.ID_OF = "_id_of" /\ (schema = JTrue \/ schema = JFalse) THEN Str(<<>>)
    ELSE IF ~isdict(schema) THEN AttributeError
    ELSE IF cls.ID_OF = "_id_of" THEN get(schema, S_id, Str(<<>>))
    ELSE get(schema, S_id_draft3, Str(<<>>))

\* the default of create (schema.items()), and ignore_ref_siblings
applicable_validators(cls, schema) ==
    IF cls.applicable_validators = "ignore_ref_siblings" /\ haskey(schema, S_ref)
    THEN << kv(S_ref, getitem(schema, S_ref)) >>
    ELSE schema.v

Draft4Validator ==
    Validator(Meta_draft4, <<>>, Validators_draft4, "draft4", "draft4_type_checker",
              "draft3_id_of", "ignore_ref_siblings")

Draft7Validator ==
    Validator(Meta_draft7, <<>>, Validators_draft7, "draft7", "draft7_type_checker",
              "_id_of", "ignore_ref_siblings")

Draft202012Validator ==
    Validator(Meta_draft202012, <<>>, Validators_draft7, "draft2020-12",
              "draft202012_type_checker", "_id_of", "items")

LATEST_VERSION == Draft202012Validator

\* validates(version)(cls): the registry with cls recorded under the version,
\* under the id of its meta-schema, and its vocabularies under their ids
validates(registry, version, cls) ==
    [ validators   |-> [v \in DOMAIN registry.validators \cup {version} |->
                           IF v = version THEN cls ELSE registry.validators[v]],
      meta_schemas |-> URIDict_set(registry.meta_schemas,
                                   id_of(cls, cls.META_SCHEMA).v, cls),
      vocabularies |-> URIDict_update(registry.vocabularies,
                           [i \in 1..Len(cls.VOCABULARY_SCHEMAS) |->
                               << id_of(cls, cls.VOCABULARY_SCHEMAS[i]).v,
                                  cls.VOCABULARY_SCHEMAS[i] >>]) ]

\* dict(d).update(other), for keyword tables
update(d, other) ==
    [k \in DOMAIN d \cup DOMAIN other |-> IF k \in DOMAIN other THEN other[k] ELSE d[k]]

\* an extend that updates the keyword table of the class it is given
extend_in_place(registry, validator, validators, version, type_checker) ==
    LET made(cls) ==
            [ cls       |-> cls,
              validator |-> [validator EXCEPT !.VALIDATORS = cls.VALIDATORS],
              registry  |-> IF version = "" THEN registry
                            ELSE validates(registry, version, cls) ]
    IN  made(Validator(validator.META_SCHEMA, <<>>,
                       update(validator.VALIDATORS, validators), version,
                       IF type_checker = "None" THEN validator.TYPE_CHECKER
                       ELSE type_checker,
                       validator.ID_OF, "items"))

\* extend(validator, validators, version, type_checker): the class made, the
\* class it was made from as the call leaves it, and the registry afterwards;
\* version "" and type_checker "None" stand for the arguments not given
extend(registry, validator, validators, version, type_checker) ==
    LET made(cls) ==
            [ cls       |-> cls,
              validator |-> validator,
              registry  |-> IF version = "" THEN registry
                            ELSE validates(registry, version, cls) ]
    IN  made(Validator(validator.META_SCHEMA, <<>>,
                       update(validator.VALIDATORS, validators), version,
                       IF type_checker = "None" THEN validator.TYPE_CHECKER
                       ELSE type_checker,
                       validator.ID_OF, "items"))

\* the registry once the module is imported
EmptyRegistry == [validators |-> <<>>, meta_schemas |-> <<>>, vocabularies |-> <<>>]

ImportedRegistry ==
    validates(validates(validates(EmptyRegistry, "draft4", Draft4Validator),
                        "draft7", Draft7Validator),
              "draft2020-12", Draft202012Validator)

\* the items of a mapping whose keys are a set, in some fixed order
RECURSIVE ItemsOf(_, _)
ItemsOf(f, keys) ==
    IF keys = {} THEN <<>>
    ELSE LET key == CHOOSE x \in keys : TRUE
         IN  << <<key, f[key]>> >> \o ItemsOf(f, keys \ {key})

store_schema_list(registry) ==
    LET metas == ItemsOf(registry.meta_schemas, DOMAIN registry.meta_schemas)
    IN  [i \in 1..Len(metas) |-> <<metas[i][1], metas[i][2].META_SCHEMA>>]
        \o ItemsOf(registry.vocabularies, DOMAIN registry.vocabularies)

\* RefResolver.from_schema(schema, id_of=id_of)
from_schema(registry, cls, schema) ==
    RefResolver(id_of(cls, schema).v, schema, <<>>, TRUE, {}, lru_maxsize,
                store_schema_list(registry))

validator_for(registry, schema, default) ==
    IF schema = JTrue \/ schema = JFalse \/ ~haskey(schema, S_schema) THEN default
    ELSE IF URIDict_has(registry.meta_schemas, getitem(schema, S_schema).v)
         THEN URIDict_get(registry.meta_schemas, getitem(schema, S_schema).v)
         ELSE LATEST_VERSION

----------------------------------------------------------------------------
(* The engine.  A pass is a chain of suspended generators: a stack of      *)
(* frames, the innermost last.  A frame of iter_errors holds the schema,   *)
(* the instance, the position st in its applicable keywords, whether it    *)
(* pushed a scope, and the path and schema_path of the descend() that      *)
(* called it; a frame of a keyword callable holds the callable, the        *)
(* keyword's value and its own position.  One step advances the innermost  *)
(* frame and returns [frames, r, out, exc]: the frames and the resolver    *)
(* afterwards, the diagnostic yielded to the consumer (at most one) and    *)
(* the exception raised.                                                   *)

None == Null

Unset == [t |-> "unset", v |-> 0]

Frame_iter(schema, instance, path, schema_path) ==
    [ f |-> "iter_errors", schema |-> schema, instance |-> instance, st |-> 0,
      pushed |-> FALSE, callable |-> "", v |-> None,
      path |-> path, schema_path |-> schema_path ]

Frame_keyword(callable, v, instance, schema) ==
    [ f |-> "keyword", schema |-> schema, instance |-> instance, st |-> 1,
      pushed |-> FALSE, callable |-> callable, v |-> v,
      path |-> None, schema_path |-> None ]

Stepped(frames, r, out, exc) == [frames |-> frames, r |-> r, out |-> out, exc |-> exc]

Front(frames) == SubSeq(frames, 1, Len(frames) - 1)

\* the innermost generator returns: its caller moves on
return(frames) ==
    LET rest == Front(frames)
    IN  IF rest = <<>> THEN rest ELSE [rest EXCEPT ![Len(rest)].st = @ + 1]

\* exceptions.ValidationError as a callable makes it, nothing set yet
ValidationError == [validator |-> Unset, path |-> <<>>, schema_path |-> <<>>]

\* a descend that prepends the segments that are true in Python
descend_truthy(error, path, schema_path) ==
    [error EXCEPT
        !.path = IF truthy(path) THEN <<path>> \o @ ELSE @,
        !.schema_path = IF truthy(schema_path) THEN <<schema_path>> \o @ ELSE @]

\* Validator.descend: what it does to a diagnostic of the pass it wraps
descend(error, path, schema_path) ==
    [error EXCEPT
        !.path = IF path # None THEN <<path>> \o @ ELSE @,
        !.schema_path = IF schema_path # None THEN <<schema_path>> \o @ ELSE @]

\* an iter_errors that prepends every keyword to the schema path
stamp_every(error, k) ==
    [error EXCEPT
        !.validator = IF @ = Unset THEN Str(k) ELSE @,
        !.schema_path = <<Str(k)>> \o @]

\* iter_errors, lines 194-204: what it does to a diagnostic of keyword k
stamp(error, k) ==
    [error EXCEPT
        !.validator = IF @ = Unset THEN Str(k) ELSE @,
        !.schema_path = IF k \notin {S_if, S_ref} THEN <<Str(k)>> \o @ ELSE @]

\* a diagnostic on its way out, through every suspended frame
RECURSIVE bubble(_, _, _)
bubble(cls, frames, error) ==
    IF frames = <<>> THEN error
    ELSE LET fr == frames[Len(frames)]
             k  == applicable_validators(cls, fr.schema)[fr.st].k
         IN  bubble(cls, Front(frames),
                    IF fr.f = "keyword" THEN error
                    ELSE descend(stamp(error, k), fr.path, fr.schema_path))

\* the finally blocks of the frames, innermost first: each frame that
\* pushed a scope pops one
RECURSIVE unwind(_, _)
unwind(frames, r) ==
    IF frames = <<>> THEN r
    ELSE unwind(Front(frames),
                IF frames[Len(frames)].pushed THEN pop_scope(r).r ELSE r)

Pushed(frames) == Cardinality({ i \in 1..Len(frames) : frames[i].pushed })

\* TypeChecker.is_type through Validator.is_type
KnownTypes == { T_integer.v, T_number.v, T_string.v, T_object.v, T_array.v }

is_type(instance, type) ==
    IF type = T_integer.v \/ type = T_number.v THEN instance.t = "int"
    ELSE IF type = T_string.v THEN instance.t = "str"
    ELSE IF type = T_object.v THEN instance.t = "dict"
    ELSE instance.t = "list"

\* _validators.type and _validators.minimum: they yield at most one
\* diagnostic and return
type(cls, frames, r) ==
    LET fr == frames[Len(frames)]
    IN  IF fr.v.v \notin KnownTypes THEN Stepped(frames, r, <<>>, "UnknownType")
        ELSE IF is_type(fr.instance, fr.v.v) THEN Stepped(return(frames), r, <<>>, "")
        ELSE Stepped(return(frames), r,
                     <<bubble(cls, Front(frames), ValidationError)>>, "")

minimum(cls, frames, r) ==
    LET fr == frames[Len(frames)]
    IN  IF ~is_type(fr.instance, T_number.v) THEN Stepped(return(frames), r, <<>>, "")
        ELSE IF fr.v.t # "int" THEN Stepped(frames, r, <<>>, "TypeError")
        ELSE IF fr.instance.v < fr.v.v
        THEN Stepped(return(frames), r,
                     <<bubble(cls, Front(frames), ValidationError)>>, "")
        ELSE Stepped(return(frames), r, <<>>, "")

\* _validators.allOf: descend(instance, subschema, schema_path=index), in turn
allOf(cls, frames, r) ==
    LET fr == frames[Len(frames)]
    IN  IF fr.st > Len(fr.v.v) THEN Stepped(return(frames), r, <<>>, "")
        ELSE Stepped(Append(frames, Frame_iter(fr.v.v[fr.st], fr.instance,
                                               None, Num(fr.st - 1))),
                     r, <<>>, "")

\* _validators.properties: descend(instance[property], subschema,
\* path=property, schema_path=property) for the properties the instance has
properties(cls, frames, r) ==
    LET fr == frames[Len(frames)]
        n  == Len(frames)
    IN  IF ~is_type(fr.instance, T_object.v) \/ fr.st > Len(fr.v.v)
        THEN Stepped(return(frames), r, <<>>, "")
        ELSE IF ~haskey(fr.instance, fr.v.v[fr.st].k)
        THEN Stepped([frames EXCEPT ![n].st = @ + 1], r, <<>>, "")
        ELSE Stepped(Append(frames,
                            Frame_iter(fr.v.v[fr.st].v,
                                       getitem(fr.instance, fr.v.v[fr.st].k),
                                       Str(fr.v.v[fr.st].k), Str(fr.v.v[fr.st].k))),
                     r, <<>>, "")

\* a resolving that refuses a schema the pass is in the middle of
resolving_detects_cycle(cls, frames, r, fetch) ==
    LET fr == frames[Len(frames)]
        n  == Len(frames)
        body(res, psh) ==
            IF psh.exc # "" THEN Stepped(frames, psh.r, <<>>, psh.exc)
            ELSE Stepped(Append([frames EXCEPT ![n].pushed = TRUE],
                                Frame_iter(res.v.resolved, fr.instance, None, None)),
                         psh.r, <<>>, "")
        resolved(res) ==
            IF res.exc # "" THEN Stepped(frames, res.r, <<>>, res.exc)
            ELSE IF \E i \in 1..Len(frames) : /\ frames[i].f = "iter_errors"
                                               /\ frames[i].schema = res.v.resolved
            THEN Stepped(frames, res.r, <<>>, "RefResolutionError")
            ELSE body(res, push_scope(res.r, res.v.url))
    IN  IF fr.st = 1 THEN resolved(resolve(r, fr.v.v, fetch))
        ELSE Stepped(return(frames), pop_scope(r).r, <<>>, "")

\* RefResolver.resolving(ref) around descend(instance, resolved), as
\* _validators.ref uses it: resolve, push the url, run the body, pop
resolving(cls, frames, r, fetch) ==
    LET fr == frames[Len(frames)]
        n  == Len(frames)
        body(res, psh) ==
            IF psh.exc # "" THEN Stepped(frames, psh.r, <<>>, psh.exc)
            ELSE Stepped(Append([frames EXCEPT ![n].pushed = TRUE],
                                Frame_iter(res.v.resolved, fr.instance, None, None)),
                         psh.r, <<>>, "")
        resolved(res) ==
            IF res.exc # "" THEN Stepped(frames, res.r, <<>>, res.exc)
            ELSE body(res, push_scope(res.r, res.v.url))
    IN  IF fr.st = 1 THEN resolved(resolve(r, fr.v.v, fetch))
        ELSE Stepped(return(frames), pop_scope(r).r, <<>>, "")

\* the depth of suspended generators at which the interpreter refuses to
\* go deeper and raises RecursionError (sys.getrecursionlimit())
RecursionLimit == 8

RECURSIVE advance(_, _, _, _)

\* next(self.iter_errors(instance, _schema), None) and the drop of the
\* generator: the pass is run to its first diagnostic, its end or an
\* exception, and the finally blocks of its frames run
RECURSIVE next_error(_, _, _)
next_error(cls, frames, r) ==
    LET step(m) ==
            IF m.exc # "" THEN [exc |-> m.exc, out |-> <<>>, r |-> unwind(m.frames, m.r)]
            ELSE IF m.out # <<>>
            THEN [exc |-> "", out |-> m.out, r |-> unwind(m.frames, m.r)]
            ELSE IF m.frames = <<>> THEN [exc |-> "", out |-> <<>>, r |-> m.r]
            ELSE next_error(cls, m.frames, m.r)
    IN  step(advance(cls, frames, r, "ok"))

\* _validators.if_: is_valid(instance, if_schema), then
\* descend(instance, then, schema_path="then") or, when it is not valid,
\* descend(instance, else, schema_path="else")
if_(cls, frames, r) ==
    LET fr == frames[Len(frames)]
        branch(key) ==
            IF haskey(fr.schema, key)
            THEN Append(frames, Frame_iter(getitem(fr.schema, key), fr.instance,
                                           None, Str(key)))
            ELSE return(frames)
        chosen(res) ==
            IF res.exc # "" THEN Stepped(frames, res.r, <<>>, res.exc)
            ELSE Stepped(branch(IF res.out = <<>> THEN <<"t", "h", "e", "n">>
                                ELSE <<"e", "l", "s", "e">>),
                         res.r, <<>>, "")
    IN  IF fr.st = 1
        THEN chosen(next_error(cls, <<Frame_iter(fr.v, fr.instance, None, None)>>, r))
        ELSE Stepped(return(frames), r, <<>>, "")

\* an iter_errors that extracts the id before it looks at the literals
iter_errors_ids_first(cls, frames, r) ==
    LET fr    == frames[Len(frames)]
        n     == Len(frames)
        scope == id_of(cls, fr.schema)
        items == applicable_validators(cls, fr.schema)
        scoped(psh) ==
            Stepped([frames EXCEPT ![n].st = 1, ![n].pushed = psh.exc = ""],
                    psh.r, <<>>, psh.exc)
    IN  IF fr.st = 0
        THEN IF scope = AttributeError
             THEN Stepped(frames, r, <<>>, "AttributeError")
             ELSE IF fr.schema = JTrue THEN Stepped(return(frames), r, <<>>, "")
             ELSE IF fr.schema = JFalse
             THEN Stepped(return(frames), r,
                          <<bubble(cls, Front(frames),
                                   descend([ValidationError EXCEPT !.validator = None],
                                           fr.path, fr.schema_path))>>, "")
             ELSE IF truthy(scope)
             THEN scoped(push_scope(r, scope.v))
             ELSE Stepped([frames EXCEPT ![n].st = 1], r, <<>>, "")
        ELSE IF fr.st > Len(items)
        THEN Stepped(return(frames), IF fr.pushed THEN pop_scope(r).r ELSE r, <<>>, "")
        ELSE IF items[fr.st].k \notin DOMAIN cls.VALIDATORS
        THEN Stepped([frames EXCEPT ![n].st = @ + 1], r, <<>>, "")
        ELSE Stepped(Append(frames,
                            Frame_keyword(cls.VALIDATORS[items[fr.st].k],
                                          items[fr.st].v, fr.instance, fr.schema)),
                     r, <<>>, "")

\* Validator.iter_errors
iter_errors(cls, frames, r) ==
    LET fr    == frames[Len(frames)]
        n     == Len(frames)
        scope == id_of(cls, fr.schema)
        items == applicable_validators(cls, fr.schema)
        scoped(psh) ==
            Stepped([frames EXCEPT ![n].st = 1, ![n].pushed = psh.exc = ""],
                    psh.r, <<>>, psh.exc)
    IN  IF fr.st = 0
        THEN IF fr.schema = JTrue THEN Stepped(return(frames), r, <<>>, "")
             ELSE IF fr.schema = JFalse
             THEN Stepped(return(frames), r,
                          <<bubble(cls, Front(frames),
                                   descend([ValidationError EXCEPT !.validator = None],
                                           fr.path, fr.schema_path))>>, "")
             ELSE IF scope = AttributeError
             THEN Stepped(frames, r, <<>>, "AttributeError")
             ELSE IF truthy(scope)
             THEN scoped(push_scope(r, scope.v))
             ELSE Stepped([frames EXCEPT ![n].st = 1], r, <<>>, "")
        ELSE IF fr.st > Len(items)
        THEN Stepped(return(frames), IF fr.pushed THEN pop_scope(r).r ELSE r, <<>>, "")
        ELSE IF items[fr.st].k \notin DOMAIN cls.VALIDATORS
        THEN Stepped([frames EXCEPT ![n].st = @ + 1], r, <<>>, "")
        ELSE Stepped(Append(frames,
                            Frame_keyword(cls.VALIDATORS[items[fr.st].k],
                                          items[fr.st].v, fr.instance, fr.schema)),
                     r, <<>>, "")

\* one step of the innermost generator of the pass; a step that would
\* suspend more generators than the interpreter allows raises instead
advance(cls, frames, r, fetch) ==
    LET fr == frames[Len(frames)]
        limited(m) ==
            IF Len(m.frames) > RecursionLimit
            THEN Stepped(frames, r, <<>>, "RecursionError")
            ELSE m
    IN  limited(IF fr.f = "iter_errors" THEN iter_errors(cls, frames, r)
                ELSE IF fr.callable = "ref" THEN resolving(cls, frames, r, fetch)
                ELSE IF fr.callable = "allOf" THEN allOf(cls, frames, r)
                ELSE IF fr.callable = "properties" THEN properties(cls, frames, r)
                ELSE IF fr.callable = "if" THEN if_(cls, frames, r)
                ELSE IF fr.callable = "type" THEN type(cls, frames, r)
                ELSE minimum(cls, frames, r))

----------------------------------------------------------------------------
(* The state *)

VARIABLES
    registry,   \* validators, meta_schemas and _VOCABULARIES of the module
    validator,  \* the engine under test: its class and its schema
    instance,   \* the instance the calls are made on
    resolver,   \* the RefResolver of the engine under test
    fresh,      \* the RefResolver of the engine check_schema makes
    pass,       \* the call in progress and its generator chain
    results,    \* by operation, how its last call ended
    ncalls,     \* the calls made so far
    history     \* the calls made on the resolver or the registry directly,
                \* oldest first

vars == <<registry, validator, instance, resolver, fresh, pass, results, ncalls, history>>

----------------------------------------------------------------------------
(* The operations of an engine, and the module's validate(), one call at a *)
(* time on one instance.  A call is a pass to its end: to exhaustion, to   *)
(* the first diagnostic for the consumers that stop there, or to an        *)
(* exception.  A consumer that stops drops the last reference to the       *)
(* generator chain; reference counting finalizes the chain at once, which  *)
(* runs the finally blocks of its suspended frames.                        *)

MaxCalls == 2

Ops == {"iter_errors", "is_valid", "validate", "check_schema", "validate()"}

Idle ==
    [ op |-> "", phase |-> "", on |-> "", cls |-> LATEST_VERSION, frames |-> <<>>,
      schema |-> None, instance |-> None, out |-> <<>>, before |-> <<>>,
      bound_before |-> <<>>, isteps |-> 0, deepest |-> 0 ]

NoResult ==
    [ done |-> FALSE, exc |-> "", ret |-> "", out |-> <<>>, before |-> <<>>,
      after |-> <<>>, bound_before |-> <<>>, bound_after |-> <<>>, closed |-> 0,
      isteps |-> 0, deepest |-> 0, version |-> "", schema |-> None,
      instance |-> None, error |-> <<>>, phase |-> "" ]

NoResults == [op \in Ops |-> NoResult]

\* http://l/r, the id of a root schema
U_L == Http \o <<":", "/", "/", "l", "/", "r">>

\* http://l/q, the id of a subschema
U_Q == Http \o <<":", "/", "/", "l", "/", "q">>

\* nested ids and a reference into the document itself
Schema_nested ==
    Dict(<< kv(S_id, Str(U_L)),
            kv(S_allOf, List(<< Dict(<< kv(S_id, Str(<<"s", "u", "b">>)),
                                       kv(S_minimum, Num(2)) >>),
                                Dict(<< kv(S_ref, Str(Frag(<<>>, P_dp))) >>) >>)),
            kv(<<"d">>, Dict(<< kv(<<"p">>, Dict(<< kv(S_id, Str(U_Q)),
                                                    kv(S_type, T_string) >>)) >>)) >>)

\* references to documents that have to be fetched
Schema_remote ==
    Dict(<< kv(S_properties,
               Dict(<< kv(<<"a">>, Dict(<< kv(S_ref, Str(Frag(U_A, P_dp))) >>)) >>)),
            kv(S_allOf, List(<< Dict(<< kv(S_ref, Str(U_B)) >>) >>)),
            kv(S_minimum, Num(3)) >>)

\* a keyword whose callable raises, after one that yields
Schema_unknown_type ==
    Dict(<< kv(S_id, Str(U_L)),
            kv(S_allOf, List(<< Dict(<< kv(S_id, Str(<<"s", "u", "b">>)),
                                       kv(S_minimum, Num(5)) >>) >>)),
            kv(S_type, Str(<<"f", "o", "o">>)) >>)

\* a schema its meta-schema rejects
Schema_invalid == Dict(<< kv(S_title, Num(0)), kv(S_minimum, Str(<<"x">>)) >>)

\* a reference under an id whose pointer resolves to nothing
Schema_dangling ==
    Dict(<< kv(S_id, Str(U_L)),
            kv(S_allOf, List(<< Dict(<< kv(S_id, Str(<<"s", "u", "b">>)),
                                       kv(S_ref, Str(Frag(U_A, P_dz))) >>) >>)) >>)

\* a schema that declares draft 4, whose first diagnostic is one level down
\* in the instance and whose second is at its root
Schema_declared ==
    Dict(<< kv(S_schema, Str(U_M4)),
            kv(S_properties,
               Dict(<< kv(<<"a">>, Dict(<< kv(S_minimum, Num(1)) >>)) >>)),
            kv(S_type, T_string) >>)

\* the literal schemas as subschemas
Schema_booleans == Dict(<< kv(S_allOf, List(<< JTrue, JFalse >>)) >>)

Schemas ==
    { Schema_nested, Schema_remote, Schema_unknown_type, Schema_invalid,
      Schema_dangling, Schema_declared, Schema_booleans, JTrue, JFalse }

Instances == { Num(1), Str(<<"s">>), Dict(<< kv(<<"a">>, Num(0)) >>) }

Classes == { Draft4Validator, Draft202012Validator }

\* the schemes with a handler; the handler's behaviour is the `fetch` of a call
Handlers == { <<"x">> }

\* the engine is made with the resolver from_schema gives it, or with one
\* the caller made with handlers
Init ==
    /\ registry = ImportedRegistry
    /\ \E cls \in Classes, schema \in Schemas, handlers \in {{}, Handlers} :
          \* the id_of of draft 4 raises on a boolean: there is no such engine
          /\ isdict(schema) \/ cls.ID_OF = "_id_of"
          /\ validator = [cls |-> cls, schema |-> schema]
          /\ resolver = IF handlers = {} THEN from_schema(registry, cls, schema)
                        ELSE RefResolver(id_of(cls, schema).v, schema, <<>>, TRUE,
                                         handlers, lru_maxsize,
                                         store_schema_list(registry))
    /\ instance \in Instances
    /\ fresh = resolver
    /\ pass = Idle
    /\ results = NoResults
    /\ ncalls = 0
    /\ history = <<>>

\* the resolver the pass in progress works on
Current == IF pass.on = "fresh" THEN fresh ELSE resolver

SetCurrent(r) ==
    IF pass.on = "fresh" THEN fresh' = r /\ UNCHANGED resolver
    ELSE resolver' = r /\ UNCHANGED fresh

Begin(op, phase, on, cls, schema, inst, r) ==
    [ op |-> op, phase |-> phase, on |-> on, cls |-> cls,
      frames |-> <<Frame_iter(schema, inst, None, None)>>,
      schema |-> schema, instance |-> inst, out |-> <<>>,
      before |-> r.scopes_stack, bound_before |-> resolver.scopes_stack,
      isteps |-> 0, deepest |-> Len(r.scopes_stack) ]

\* iter_errors(instance), consumed to its end; is_valid(instance);
\* validate(instance): the three consume the same generator
CallOnInstance(op) ==
    /\ pass.op = "" /\ ncalls < MaxCalls
    /\ pass' = Begin(op, "iter_errors", "bound", validator.cls, validator.schema,
                     instance, resolver)
    /\ ncalls' = ncalls + 1
    /\ UNCHANGED <<registry, validator, instance, resolver, fresh, results, history>>

\* a check_schema that runs on the resolver of the engine it is called on
check_schema_shared(op, cls, schema) ==
    /\ fresh' = fresh
    /\ pass' = Begin(op, "check_schema", "bound", cls, cls.META_SCHEMA, schema, resolver)

\* cls.check_schema(schema): cls(cls.META_SCHEMA).iter_errors(schema), the
\* engine and its resolver made for the call
check_schema(op, cls, schema) ==
    /\ fresh' = from_schema(registry, cls, cls.META_SCHEMA)
    /\ pass' = Begin(op, "check_schema", "fresh", cls, cls.META_SCHEMA, schema, fresh')

CallCheckSchema ==
    /\ pass.op = "" /\ ncalls < MaxCalls
    /\ check_schema("check_schema", validator.cls, validator.schema)
    /\ ncalls' = ncalls + 1
    /\ UNCHANGED <<registry, validator, instance, resolver, results, history>>

\* a validate(instance, schema) that does not check the schema
validate_unchecked(schema) ==
    /\ fresh' = fresh
    /\ pass' = Begin("validate()", "best_match", "bound",
                     validator_for(registry, schema, LATEST_VERSION), schema,
                     instance, resolver)

\* validate(instance, schema), lines 926-929: the class is chosen and the
\* schema is checked first
validate(schema) ==
    check_schema("validate()", validator_for(registry, schema, LATEST_VERSION), schema)

CallValidate ==
    /\ pass.op = "" /\ ncalls < MaxCalls
    /\ validate(validator.schema)
    /\ ncalls' = ncalls + 1
    /\ UNCHANGED <<registry, validator, instance, resolver, results, history>>

\* exceptions.best_match(errors): the most relevant diagnostic, which is the
\* first of those with the shortest path; <<>> when there is none
best_match(errors) ==
    IF errors = <<>> THEN <<>>
    ELSE <<errors[CHOOSE i \in 1..Len(errors) :
                    /\ \A j \in 1..Len(errors) :
                          Len(errors[j].path) >= Len(errors[i].path)
                    /\ \A j \in 1..(i - 1) :
                          Len(errors[j].path) > Len(errors[i].path)]>>

\* the call in progress ends; the diagnostic an exception carries is the
\* one best_match chose, or the one the consumer stopped at
Finish(exc, ret, out, r, closed) ==
    /\ SetCurrent(r)
    /\ results' = [results EXCEPT ![pass.op] =
          [ done |-> TRUE, exc |-> exc, ret |-> ret, out |-> out,
            before |-> pass.before, after |-> r.scopes_stack,
            bound_before |-> pass.bound_before,
            bound_after |-> IF pass.on = "fresh" THEN resolver.scopes_stack
                            ELSE r.scopes_stack,
            closed |-> closed, isteps |-> pass.isteps, deepest |-> pass.deepest,
            version |-> pass.cls.version, schema |-> pass.schema,
            instance |-> pass.instance,
            error |-> IF exc \notin {"ValidationError", "SchemaError"} THEN <<>>
                      ELSE IF pass.phase = "best_match" THEN best_match(out)
                      ELSE <<out[1]>>,
            phase |-> pass.phase ]]
    /\ pass' = Idle
    /\ UNCHANGED <<registry, validator, instance, ncalls, history>>

Counted(m) ==
    [pass EXCEPT !.frames = m.frames,
                 !.isteps = IF pass.phase = "check_schema" THEN @ ELSE @ + 1,
                 !.deepest = IF Len(m.r.scopes_stack) > @
                             THEN Len(m.r.scopes_stack) ELSE @]

\* a step that neither yields nor raises nor ends the generator
Advance(fetch) ==
    /\ pass.op # ""
    /\ \E m \in {advance(pass.cls, pass.frames, Current, fetch)} :
           /\ m.exc = "" /\ m.out = <<>> /\ m.frames # <<>>
           /\ SetCurrent(m.r)
           /\ pass' = Counted(m)
    /\ UNCHANGED <<registry, validator, instance, results, ncalls, history>>

\* a step in which a keyword callable, or the resolver under it, raises: the
\* exception leaves through every frame, and their finally blocks run
Raises(fetch) ==
    /\ pass.op # ""
    /\ \E m \in {advance(pass.cls, pass.frames, Current, fetch)} :
           /\ m.exc # ""
           /\ Finish(m.exc, "", pass.out, unwind(m.frames, m.r), Pushed(m.frames))

\* consumers of which only the caller's loop takes every diagnostic
TakesAll_loop_only == pass.op = "iter_errors"

\* consumers that all take every diagnostic
TakesAll_always == TRUE

\* the consumers that take every diagnostic: a caller's loop over
\* iter_errors, and best_match
TakesAll == pass.op = "iter_errors" \/ pass.phase = "best_match"

\* an is_valid that does not look at what next() gave it
is_valid_blind(error) == "True"

\* is_valid: error = next(iter_errors, None); return error is None
is_valid(error) == IF error = <<>> THEN "True" ELSE "False"

\* what a consumer does with the first diagnostic: validate raises it,
\* check_schema raises SchemaError.create_from(error)
raised(op) ==
    IF op = "is_valid" THEN ""
    ELSE IF op = "validate" THEN "ValidationError"
    ELSE "SchemaError"

\* validate(instance, schema), lines 932-933: raise error, when there is one
raise_error(error) == IF error = <<>> THEN "" ELSE "ValidationError"

\* a generator chain that is dropped and never finalized
close_never(frames, r) == r

\* dropping the generator chain: gen.close() in every suspended frame
close(frames, r) == unwind(frames, r)

\* a step that yields a diagnostic to the consumer
Yields(fetch) ==
    /\ pass.op # ""
    /\ \E m \in {advance(pass.cls, pass.frames, Current, fetch)} :
           /\ m.exc = "" /\ m.out # <<>>
           /\ IF ~TakesAll
              THEN Finish(raised(pass.op),
                          IF pass.op = "is_valid" THEN is_valid(m.out) ELSE "",
                          m.out, close(m.frames, m.r), Pushed(m.frames))
              ELSE IF m.frames = <<>>
              THEN Finish(IF pass.op = "validate()"
                          THEN raise_error(best_match(pass.out \o m.out))
                          ELSE "",
                          "", pass.out \o m.out, m.r, 0)
              ELSE /\ SetCurrent(m.r)
                   /\ pass' = [Counted(m) EXCEPT !.out = @ \o m.out]
                   /\ UNCHANGED <<registry, validator, instance, results, ncalls,
                                  history>>

\* the step after which the generator is exhausted, for every consumer but
\* the check_schema of validate()
Exhausts(fetch) ==
    /\ pass.op # "" /\ ~(pass.op = "validate()" /\ pass.phase = "check_schema")
    /\ \E m \in {advance(pass.cls, pass.frames, Current, fetch)} :
           /\ m.exc = "" /\ m.out = <<>> /\ m.frames = <<>>
           /\ Finish(IF pass.op = "validate()" THEN raise_error(best_match(pass.out))
                     ELSE "",
                     IF pass.op = "is_valid" THEN is_valid(<<>>) ELSE "",
                     pass.out, m.r, 0)

\* validate(instance, schema) after a check_schema that raised nothing,
\* lines 930-931: the engine is made and best_match takes every diagnostic
Validates(fetch) ==
    /\ pass.op = "validate()" /\ pass.phase = "check_schema"
    /\ \E m \in {advance(pass.cls, pass.frames, Current, fetch)} :
           /\ m.exc = "" /\ m.out = <<>> /\ m.frames = <<>>
           /\ fresh' = m.r
           /\ validator' = [cls |-> pass.cls, schema |-> pass.instance]
           /\ resolver' = from_schema(registry, pass.cls, pass.instance)
           /\ pass' = Begin("validate()", "best_match", "bound", pass.cls,
                            pass.instance, instance, resolver')
    /\ UNCHANGED <<registry, instance, results, ncalls, history>>

Next ==
    \/ \E op \in {"iter_errors", "is_valid", "validate"} : CallOnInstance(op)
    \/ CallCheckSchema
    \/ CallValidate
    \/ \E fetch \in {"ok", "raise"} :
          \/ Advance(fetch)
          \/ Raises(fetch)
          \/ Yields(fetch)
          \/ Exhausts(fetch)
          \/ Validates(fetch)

Spec == Init /\ [][Next]_vars

----------------------------------------------------------------------------
(* What the calls leave behind *)

\* the last call of the operation ended with its generator exhausted
Exhausted(op) ==
    /\ results[op].done
    /\ results[op].ret # "False"
    /\ \/ results[op].exc = ""
       \/ op = "validate()" /\ results[op].exc = "ValidationError"

\* the last call of the operation ended before its generator was exhausted:
\* an exception came out of it, or its consumer stopped at a diagnostic
Cut(op) == results[op].done /\ ~Exhausted(op)

\* C1: after a pass consumed to exhaustion the scope stack of the resolver is
\* what it was before the pass, entry by entry, whatever ids and references
\* the pass went through
C1_StackRestoredAfterExhaustion ==
    \A op \in Ops : Exhausted(op) => results[op].after = results[op].before

\* an exhausted iter_errors that went three scopes deep: under the id of the
\* root, into a reference, under the id of its target
C1_Witness ==
    /\ Exhausted("iter_errors")
    /\ results["iter_errors"].out # <<>>
    /\ results["iter_errors"].deepest >= Len(results["iter_errors"].before) + 3

\* C2: after a pass that an exception ended, or that is_valid, validate or
\* check_schema stopped at its first diagnostic, the scope stack is what it
\* was before the pass: every scope the pass pushed has been popped
C2_StackRestoredAfterCut ==
    \A op \in Ops : Cut(op) => results[op].after = results[op].before

\* is_valid stopped two scopes deep, and an exception left an iter_errors
\* that had pushed a scope
C2_Witness ==
    /\ results["is_valid"].done /\ results["is_valid"].ret = "False"
    /\ results["is_valid"].closed >= 2
    /\ results["iter_errors"].done /\ results["iter_errors"].exc # ""
    /\ results["iter_errors"].closed >= 1

\* C3: on the same engine and instance, is_valid returns true exactly when
\* iter_errors yields no diagnostic
C3_ValidIffNoDiagnostics ==
    ( /\ results["is_valid"].done /\ results["is_valid"].exc = ""
      /\ results["iter_errors"].done /\ results["iter_errors"].exc = "" )
    => ( results["is_valid"].ret = "True" <=> results["iter_errors"].out = <<>> )

\* is_valid returned false where iter_errors yields two diagnostics
C3_Witness ==
    /\ results["is_valid"].done /\ results["is_valid"].ret = "False"
    /\ Exhausted("iter_errors") /\ Len(results["iter_errors"].out) = 2

\* the step calls a handler, and the handler raises
HandlerRaises ==
    /\ Len(resolver'.fetches) > Len(resolver.fetches)
    /\ resolver'.fetches[Len(resolver'.fetches)].via = "handler"
    /\ ~resolver'.fetches[Len(resolver'.fetches)].ok

\* C7: when the handler of a reference's scheme raises, the pass ends there
\* with RefResolutionError: the failure is not one more diagnostic, and no
\* keyword is evaluated after it
C7_HandlerFailureAbortsPass ==
    [][ HandlerRaises =>
          /\ pass' = Idle
          /\ results'[pass.op].done
          /\ results'[pass.op].exc = "RefResolutionError"
          /\ results'[pass.op].out = pass.out ]_vars

\* a pass that had yielded a diagnostic ended with RefResolutionError on a
\* handler that raised, keywords of its schema left unevaluated
C7_Witness ==
    /\ results["iter_errors"].done
    /\ results["iter_errors"].exc = "RefResolutionError"
    /\ results["iter_errors"].out # <<>>
    /\ results["iter_errors"].schema = Schema_remote
    /\ resolver.fetches # <<>>
    /\ resolver.fetches[Len(resolver.fetches)].via = "handler"
    /\ ~resolver.fetches[Len(resolver.fetches)].ok

\* C9: check_schema raises SchemaError exactly when the schema, validated as
\* an instance against the META_SCHEMA of the class, yields a diagnostic, and
\* returns otherwise; it never raises ValidationError; the resolver of the
\* engine it is called on is not touched while it runs
C9_CheckSchemaOnFreshEngine ==
    /\ [](results["check_schema"].done =>
            /\ results["check_schema"].schema
                  = registry.validators[results["check_schema"].version].META_SCHEMA
            /\ results["check_schema"].instance = validator.schema
            /\ results["check_schema"].exc \in {"", "SchemaError"}
            /\ results["check_schema"].exc = "SchemaError"
                  <=> results["check_schema"].out # <<>>
            /\ results["check_schema"].bound_after
                  = results["check_schema"].bound_before)
    /\ [][pass.op = "check_schema" => resolver' = resolver]_vars

\* check_schema raised SchemaError after its own resolver had pushed a scope
C9_Witness ==
    /\ results["check_schema"].done
    /\ results["check_schema"].exc = "SchemaError"
    /\ results["check_schema"].deepest > Len(results["check_schema"].before)
    /\ results["check_schema"].closed >= 1

\* C10: validate(instance, schema) checks the schema first: while it does,
\* and when the check raises SchemaError, no step of iter_errors has been
\* taken on the instance; and it raises SchemaError for every schema that
\* check_schema of the same class rejects
C10_SchemaCheckedBeforeInstance ==
    /\ pass.op = "validate()" /\ pass.phase = "check_schema" => pass.isteps = 0
    /\ results["validate()"].done /\ results["validate()"].exc = "SchemaError"
          => results["validate()"].isteps = 0
    /\ ( /\ results["validate()"].done
         /\ results["check_schema"].done
         /\ results["check_schema"].exc = "SchemaError"
         /\ results["check_schema"].version = results["validate()"].version )
       => ( /\ results["validate()"].exc = "SchemaError"
            /\ results["validate()"].isteps = 0 )

\* validate(instance, schema) raised SchemaError on an instance whose
\* validation would have raised TypeError
C10_Witness ==
    /\ results["validate()"].done
    /\ results["validate()"].exc = "SchemaError"
    /\ results["validate()"].instance = Schema_invalid
    /\ instance = Num(1)

LiteralStep(b) ==
    /\ pass.op = "iter_errors" /\ pass.frames # <<>>
    /\ pass.frames[Len(pass.frames)].f = "iter_errors"
    /\ pass.frames[Len(pass.frames)].st = 0
    /\ pass.frames[Len(pass.frames)].schema = b

\* C12: iter_errors on the schema true yields nothing and on the schema false
\* yields exactly one diagnostic, whatever the instance; in that step the
\* generator returns, nothing is raised (as id_of would on a literal, for
\* the classes whose id_of is schema.get), and the scope stack is untouched
C12_LiteralSchemas ==
    [][ \A b \in {JTrue, JFalse} : LiteralStep(b) =>
          /\ resolver' = resolver
          /\ IF pass'.op = ""
             THEN /\ results'["iter_errors"].exc = ""
                  /\ Len(results'["iter_errors"].out)
                        = Len(pass.out) + (IF b = JFalse THEN 1 ELSE 0)
                  /\ Len(pass.frames) = 1
             ELSE /\ Len(pass'.out) = Len(pass.out) + (IF b = JFalse THEN 1 ELSE 0)
                  /\ Len(pass'.frames) = Len(pass.frames) - 1 ]_vars

\* iter_errors of a draft 4 engine went through the two literals under
\* allOf and yielded one diagnostic, that of false
C12_Witness ==
    /\ results["iter_errors"].done
    /\ results["iter_errors"].exc = ""
    /\ results["iter_errors"].schema = Schema_booleans
    /\ results["iter_errors"].version = "draft4"
    /\ Len(results["iter_errors"].out) = 1
    /\ results["iter_errors"].out[1].schema_path = <<Str(S_allOf), Num(1)>>
    /\ results["iter_errors"].after = results["iter_errors"].before

\* C18: is_valid takes at most one diagnostic: while it runs none has been
\* produced, so every keyword callable it invoked was invoked before the
\* first diagnostic, and the step that produces one ends it with False
C18_IsValidShortCircuits ==
    /\ pass.op = "is_valid" => pass.out = <<>>
    /\ results["is_valid"].done =>
          /\ Len(results["is_valid"].out) <= 1
          /\ results["is_valid"].ret = "False" <=> Len(results["is_valid"].out) = 1
          /\ results["is_valid"].ret = "True" => results["is_valid"].exc = ""

\* is_valid returned False in fewer steps than iter_errors takes to yield
\* its two diagnostics
C18_Witness ==
    /\ results["is_valid"].done /\ results["is_valid"].ret = "False"
    /\ results["iter_errors"].done /\ results["iter_errors"].exc = ""
    /\ Len(results["iter_errors"].out) = 2
    /\ results["is_valid"].isteps < results["iter_errors"].isteps
    /\ results["is_valid"].out = <<results["iter_errors"].out[1]>>

----------------------------------------------------------------------------
(* Direct use of a resolver: resolve() called on references, one at a time *)

MaxResolves == 3

SmallCache == 1

Root_plain ==
    Dict(<< kv(<<"d">>, Dict(<< kv(<<"p">>, Dict(<< kv(S_type, T_integer) >>)) >>)) >>)

Root_L ==
    Dict(<< kv(S_id, Str(U_L)),
            kv(<<"d">>, Dict(<< kv(<<"p">>, Dict(<< kv(S_type, T_integer) >>)) >>)) >>)

Refs ==
    { Frag(U_A, P_dp), Frag(U_A, P_dq), Frag(U_A, P_dz), U_B, U_S, Frag(<<>>, P_dp) }

\* the (URI, document) pairs of the registered meta-schemas: none here
NoSchemas == <<>>

InitResolve ==
    /\ \E referrer \in {Root_plain, Root_L}, cache_remote \in BOOLEAN,
          maxsize \in {lru_maxsize, SmallCache},
          store \in { <<>>, << <<U_S, Doc_S>> >> } :
            resolver = RefResolver(get(referrer, S_id, Str(<<>>)).v, referrer, store,
                                   cache_remote, Handlers, maxsize, NoSchemas)
    /\ history = <<>>
    /\ registry = EmptyRegistry
    /\ validator = [cls |-> LATEST_VERSION, schema |-> JTrue]
    /\ instance = None
    /\ fresh = resolver
    /\ pass = Idle
    /\ results = NoResults
    /\ ncalls = 0

Resolve(ref, fetch) ==
    /\ Len(history) < MaxResolves
    /\ \E res \in {resolve(resolver, ref, fetch)} :
           /\ resolver' = res.r
           /\ history' = Append(history,
                  [ ref     |-> ref,
                    url     |-> rstrip(urljoin(resolution_scope(resolver), ref), "/"),
                    stored  |-> URIDict_has(resolver.store,
                                    urldefrag(urljoin(resolution_scope(resolver),
                                                      ref)).url),
                    exc     |-> res.exc,
                    fetched |-> Len(res.r.fetches) - Len(resolver.fetches) ])
    /\ UNCHANGED <<registry, validator, instance, fresh, pass, results, ncalls>>

NextResolve == \E ref \in Refs, fetch \in {"ok", "raise"} : Resolve(ref, fetch)

SpecResolve == InitResolve /\ [][NextResolve]_vars

\* the calls of the history that resolved the URL
CallsOf(url) == { i \in 1..Len(history) : history[i].url = url }

Urls == { history[i].url : i \in 1..Len(history) }

\* C4 as claimed: a URL resolved two or more times, and fetched at all, was
\* fetched exactly once
C4_FetchedExactlyOnce ==
    \A u \in Urls :
        LET n == Cardinality({ i \in CallsOf(u) : history[i].fetched = 1 })
        IN  (Cardinality(CallsOf(u)) >= 2 /\ n >= 1) => n = 1

\* C4: once a resolve() of a URL has fetched and returned, a later resolve()
\* of the same URL fetches nothing, provided cache_remote is enabled or fewer
\* URLs than the memo cache holds were resolved in between
C4_FetchedOnceWhileRemembered ==
    \A j \in 1..Len(history) : \A i \in 1..(j - 1) :
        ( /\ history[i].url = history[j].url
          /\ history[i].exc = "" /\ history[i].fetched = 1
          /\ \/ resolver.cache_remote
             \/ Cardinality({ history[k].url : k \in (i + 1)..(j - 1) }
                              \ {history[i].url}) < resolver.maxsize )
        => history[j].fetched = 0

\* a URL fetched by one resolve() and served without a fetch by a later one,
\* with cache_remote disabled
C4_Witness ==
    /\ ~resolver.cache_remote
    /\ \E j \in 1..Len(history) : \E i \in 1..(j - 1) :
          /\ history[i].url = history[j].url
          /\ history[i].exc = "" /\ history[i].fetched = 1
          /\ history[j].exc = "" /\ history[j].fetched = 0

\* C5: with cache_remote enabled, a document fetched successfully is in the
\* store under its fragment-less URL and that URL is never fetched again,
\* whichever of its fragments is resolved next
C5_OneFetchPerDocument ==
    resolver.cache_remote =>
        \A i \in 1..Len(resolver.fetches) :
            resolver.fetches[i].ok =>
                /\ URIDict_has(resolver.store, resolver.fetches[i].uri)
                /\ \A j \in (i + 1)..Len(resolver.fetches) :
                      resolver.fetches[j].uri # resolver.fetches[i].uri

\* two fragments of one remote document resolved, with one fetch in total
C5_Witness ==
    /\ resolver.cache_remote
    /\ \E i, j \in 1..Len(history) :
          /\ i < j
          /\ history[i].url = Frag(U_A, P_dp) /\ history[j].url = Frag(U_A, P_dq)
          /\ history[i].exc = "" /\ history[j].exc = ""
          /\ history[i].fetched = 1 /\ history[j].fetched = 0
          /\ Len(resolver.fetches) = 1

\* C6 as claimed: a reference whose fragment-less URL is a key of the store
\* is resolved without a fetch
C6_StoredNeverFetched ==
    \A i \in 1..Len(history) : history[i].stored => history[i].fetched = 0

\* the number of fetches made by the first i calls of the history
RECURSIVE FetchesUpTo(_)
FetchesUpTo(i) == IF i = 0 THEN 0 ELSE FetchesUpTo(i - 1) + history[i].fetched

\* call i of the history fetched and the fetch raised
FetchFailed(i) ==
    /\ history[i].fetched = 1
    /\ ~resolver.fetches[FetchesUpTo(i)].ok

\* call i of the history fetched and the fetch returned the document
FetchReturned(i) ==
    /\ history[i].fetched = 1
    /\ resolver.fetches[FetchesUpTo(i)].ok

DocumentOf(i) == urldefrag(history[i].url).url

\* C28 as stated: a resolve() that went to the fetch and raised
\* RefResolutionError leaves the store as it was
C28_FailedResolveLeavesStore ==
    [][ Len(history') = Len(history) + 1 =>
          LET e == history'[Len(history')]
          IN  (e.fetched = 1 /\ e.exc = "RefResolutionError")
                  => resolver'.store = resolver.store ]_vars

\* C28: a resolve() whose fetch raised fails with RefResolutionError and
\* leaves the store and the memo cache as they were; the next resolve() of
\* the same URL, with no fetch of its document having returned in between,
\* fetches again and, when that fetch returns the document, ends as the
\* lookup of the fragment in that document ends
C28_FailedFetchNotMemoized ==
    [][ Len(history') = Len(history) + 1 =>
          LET j == Len(history')
              e == history'[j]
              ok == e.fetched = 1 /\ resolver'.fetches[Len(resolver'.fetches)].ok
              d == urldefrag(e.url)
          IN  /\ (e.fetched = 1 /\ ~ok) =>
                     /\ e.exc = "RefResolutionError"
                     /\ resolver'.store = resolver.store
                     /\ resolver'.remote_cache = resolver.remote_cache
              /\ (\E i \in 1..Len(history) :
                        /\ history[i].url = e.url
                        /\ FetchFailed(i)
                        /\ \A k \in (i + 1)..Len(history) :
                               ~(FetchReturned(k) /\ DocumentOf(k) = d.url))
                     => /\ e.fetched = 1
                        /\ ok => e.exc = resolve_fragment(Remote(d.url)[1],
                                                          d.fragment).exc ]_vars

\* a URL whose fetch raised, resolved again with a fetch that returned the
\* document, the second call returning
C28_Witness ==
    \E j \in 1..Len(history) : \E i \in 1..(j - 1) :
        /\ history[i].url = history[j].url
        /\ FetchFailed(i) /\ history[i].exc = "RefResolutionError"
        /\ FetchReturned(j) /\ history[j].exc = ""

----------------------------------------------------------------------------
(* Direct use of the registry: classes are registered and validator_for is *)
(* asked for the class of a schema                                         *)

MaxRegistrations == 2

MaxSelections == 2

\* http://m/c, the id of the meta-schema of a caller's class
U_C == Http \o <<":", "/", "/", "m", "/", "c">>

\* http://m/none, the id of no meta-schema
U_None == Http \o <<":", "/", "/", "m", "/", "n", "o", "n", "e">>

Meta_custom == Dict(<< kv(S_id, Str(U_C)), kv(S_properties, MetaProperties) >>)

\* create(meta_schema=Meta_custom, validators=...) of a caller
CustomValidator ==
    Validator(Meta_custom, <<>>, Validators_draft7, "", "draft7_type_checker",
              "_id_of", "items")

Declares(uri) == Dict(<< kv(S_schema, Str(uri)), kv(S_type, T_integer) >>)

Selectable ==
    { Declares(U_M4), Declares(U_M7), Declares(U_C), Declares(U_None),
      Dict(<< kv(S_type, T_integer) >>), JTrue, JFalse }

Defaults == { LATEST_VERSION, Draft4Validator }

InitRegistry ==
    /\ registry = ImportedRegistry
    /\ validator = [cls |-> LATEST_VERSION, schema |-> JTrue]
    /\ instance = None
    /\ resolver = from_schema(registry, LATEST_VERSION, JTrue)
    /\ fresh = resolver
    /\ pass = Idle
    /\ results = NoResults
    /\ ncalls = 0
    /\ history = <<>>

\* validates(version)(cls)
Register(version, cls) ==
    /\ ncalls < MaxRegistrations
    /\ registry' = validates(registry, version, cls)
    /\ ncalls' = ncalls + 1
    /\ UNCHANGED <<validator, instance, resolver, fresh, pass, results, history>>

\* validator_for(schema, default): the call, what it returned, and whether
\* the "$schema" of the schema was the id of a registered meta-schema then
Select(schema, default) ==
    /\ Len(history) < MaxSelections
    /\ history' = Append(history,
          [ op         |-> "validator_for",
            schema     |-> schema,
            default    |-> default,
            returned   |-> validator_for(registry, schema, default),
            registered |-> /\ isdict(schema) /\ haskey(schema, S_schema)
                           /\ normalize(getitem(schema, S_schema).v)
                                 \in DOMAIN registry.meta_schemas,
            meta_schemas |-> registry.meta_schemas ])
    /\ UNCHANGED <<registry, validator, instance, resolver, fresh, pass, results,
                   ncalls>>

\* the keyword tables a caller extends a class with: nothing, and a
\* replacement for "minimum" along with a new keyword
Overlays ==
    { <<>>, Table(<<S_minimum, S_if>>, <<"my_minimum", "my_if">>) }

MaxExtends == 2

\* extend(validator, validators, version, type_checker) on a registered class
Extend(parent, validators, version, type_checker) ==
    /\ ncalls < MaxExtends
    /\ \E made \in {extend(registry, parent, validators, version, type_checker)} :
           /\ registry' = made.registry
           /\ history' = Append(history,
                  [ op           |-> "extend",
                    validators   |-> validators,
                    version      |-> version,
                    type_checker |-> type_checker,
                    before       |-> parent,
                    after        |-> made.validator,
                    returned     |-> made.cls ])
    /\ ncalls' = ncalls + 1
    /\ UNCHANGED <<validator, instance, resolver, fresh, pass, results>>

NextRegistry ==
    \/ \E version \in {"custom", "draft4"}, cls \in {CustomValidator, Draft7Validator} :
          Register(version, cls)
    \/ \E schema \in Selectable, default \in Defaults : Select(schema, default)

SpecRegistry == InitRegistry /\ [][NextRegistry]_vars

\* C8 (original claim, counterexample): validator_for returns the class
\* registered under the "$schema" of the schema when there is one, and the
\* default it was given in every other case
C8_RegisteredOrDefault ==
    \A i \in 1..Len(history) : history[i].op = "validator_for" =>
        history[i].returned =
            IF history[i].registered
            THEN history[i].meta_schemas[normalize(getitem(history[i].schema,
                                                           S_schema).v)]
            ELSE history[i].default

NextExtend ==
    \E version \in DOMAIN registry.validators, validators \in Overlays,
       as \in {"", "extended"}, type_checker \in {"None", "my_type_checker"} :
        Extend(registry.validators[version], validators, as, type_checker)

\* classes are made from registered classes, one extend after another
SpecExtend == InitRegistry /\ [][NextExtend]_vars

\* C13: the class extend makes has, for each keyword of the overlay, the
\* overlay's callable and, for every other keyword, that of the class it was
\* made from; it has the meta-schema of that class, and its type checker
\* unless one is given; the keyword table, the meta-schema and the type
\* checker of the class it was made from are what they were before the call
C13_ExtendOverlays ==
    \A i \in 1..Len(history) : history[i].op = "extend" =>
        LET h == history[i]
        IN  /\ DOMAIN h.returned.VALIDATORS
                  = DOMAIN h.before.VALIDATORS \cup DOMAIN h.validators
            /\ \A k \in DOMAIN h.validators :
                  h.returned.VALIDATORS[k] = h.validators[k]
            /\ \A k \in DOMAIN h.before.VALIDATORS \ DOMAIN h.validators :
                  h.returned.VALIDATORS[k] = h.before.VALIDATORS[k]
            /\ h.returned.META_SCHEMA = h.before.META_SCHEMA
            /\ h.returned.TYPE_CHECKER
                  = IF h.type_checker = "None" THEN h.before.TYPE_CHECKER
                    ELSE h.type_checker
            /\ h.after.VALIDATORS = h.before.VALIDATORS
            /\ h.after.META_SCHEMA = h.before.META_SCHEMA
            /\ h.after.TYPE_CHECKER = h.before.TYPE_CHECKER

\* a class made from Draft4Validator with "minimum" replaced and "if" added,
\* no type checker given, and then one made from that class in turn
C13_Witness ==
    \E i, j \in 1..Len(history) :
        /\ i < j
        /\ history[i].op = "extend" /\ history[j].op = "extend"
        /\ history[i].before = Draft4Validator
        /\ history[i].type_checker = "None"
        /\ history[i].returned.VALIDATORS[S_minimum] = "my_minimum"
        /\ history[i].returned.VALIDATORS[S_if] = "my_if"
        /\ history[i].returned.VALIDATORS[S_type] = "type"
        /\ history[j].before = history[i].returned
        /\ history[j].type_checker = "my_type_checker"

\* C27 as stated: whatever classes extend has made and registered, the id
\* of a meta-schema that was registered at import selects, for a schema
\* that declares it, the class that was registered for it at import
C27_FirstRegisteredSelected ==
    \A uri \in DOMAIN ImportedRegistry.meta_schemas :
        validator_for(registry, Dict(<< kv(S_schema, Str(uri)) >>), LATEST_VERSION)
          = ImportedRegistry.meta_schemas[uri]

----------------------------------------------------------------------------
(* Direct use of resolve_fragment: fragments resolved in one document      *)

MaxFragments == 2

\* keys that are empty, and a key that looks like an index
Doc_keys ==
    Dict(<< kv(<<>>, Num(1)),
            kv(<<"a">>, Dict(<< kv(<<>>, Num(2)),
                                kv(<<"b">>, List(<< Num(10),
                                                    Dict(<< kv(<<"c">>, Num(3)) >>) >>)) >>)),
            kv(<<"0">>, Num(4)) >>)

\* a key that is also the name of an anchor
Doc_anchor ==
    Dict(<< kv(<<"f">>, Num(5)),
            kv(<<"x">>, Dict(<< kv(S_anchor, Str(<<"f">>)) >>)),
            kv(<<"y">>, Dict(<< kv(S_dynamicAnchor, Str(<<"g">>)) >>)) >>)

\* keys with "/", "~" and "%" in them
Doc_escapes ==
    Dict(<< kv(<<"/">>, Num(1)),
            kv(<<"~">>, Num(2)),
            kv(<<"~", "1">>, Num(3)),
            kv(<<"a", "/", "b">>, Dict(<< kv(<<"~", "0">>, Num(4)) >>)),
            kv(<<"%", "2", "5">>, Num(6)),
            kv(<<"~", "%", "2", "F">>, Num(7)) >>)

\* arrays, and nodes that are no containers
Doc_nodes ==
    Dict(<< kv(<<"l">>, List(<< Num(1), List(<< Num(2) >>), Str(<<"s", "t">>) >>)),
            kv(<<"s">>, Str(<<"a", "b">>)),
            kv(<<"n">>, Num(7)),
            kv(<<"z">>, Null) >>)

\* anchors in a mapping under a mapping, and in an element of an array
Doc_arrays ==
    Dict(<< kv(<<"d">>, Dict(<< kv(<<"e">>, Dict(<< kv(S_anchor, Str(<<"d", "e">>)) >>)) >>)),
            kv(S_allOf, List(<< Dict(<< kv(S_anchor, Str(<<"i", "n">>)) >>) >>)) >>)

Documents == { Doc_keys, Doc_anchor, Doc_escapes, Doc_nodes, Doc_arrays }

\* the paths of a document: the keys and the indices, written in decimal,
\* from its root to each of its nodes under mappings and arrays
RECURSIVE Walks(_)
Walks(document) ==
    {<<>>} \cup
    IF isdict(document)
    THEN UNION { { <<document.v[i].k>> \o w : w \in Walks(document.v[i].v) } :
                 i \in 1..Len(document.v) }
    ELSE IF document.t = "list"
    THEN UNION { { <<<<Digits[i]>>>> \o w : w \in Walks(document.v[i]) } :
                 i \in 1..Len(document.v) }
    ELSE {}

\* the node a path leads to
RECURSIVE At(_, _)
At(document, path) ==
    IF path = <<>> THEN document
    ELSE IF isdict(document) THEN At(getitem(document, Head(path)), Tail(path))
    ELSE At(document.v[NatOf(Head(path)) + 1], Tail(path))

\* a key as a segment of a JSON pointer: "~" written "~0", "/" written "~1"
RECURSIVE escape(_)
escape(key) ==
    IF key = <<>> THEN <<>>
    ELSE (IF Head(key) = "~" THEN <<"~", "0">>
          ELSE IF Head(key) = "/" THEN <<"~", "1">>
          ELSE <<Head(key)>>) \o escape(Tail(key))

\* the JSON pointer of a path: each segment escaped, after a "/"
RECURSIVE Pointer(_)
Pointer(path) ==
    IF path = <<>> THEN <<>>
    ELSE <<"/">> \o escape(Head(path)) \o Pointer(Tail(path))

\* paths that lead nowhere in the documents: an index that is negative, one
\* past the end, a key under an array, and steps into a string, a number
\* and null
Astray ==
    { << <<"l">>, <<"-", "1">> >>, << <<"l">>, <<"3">> >>, << <<"l">>, <<"x">> >>,
      << <<"l">>, <<"2">>, <<"1">> >>, << <<"s">>, <<"0">> >>,
      << <<"n">>, <<"0">> >>, << <<"z">>, <<"a">> >>, << <<"q">> >> }

\* fragments that are no pointers: the names of anchors, and of none
Names == { <<"f">>, <<"g">>, <<"i", "n">>, <<"d", "e">>, <<"n", "o">> }

InitFragment ==
    /\ instance \in Documents
    /\ registry = EmptyRegistry
    /\ validator = [cls |-> LATEST_VERSION, schema |-> JTrue]
    /\ resolver = RefResolver(<<>>, instance, <<>>, TRUE, {}, lru_maxsize, NoSchemas)
    /\ fresh = resolver
    /\ pass = Idle
    /\ results = NoResults
    /\ ncalls = 0
    /\ history = <<>>

\* resolve_fragment(document, fragment); path is the path the fragment was
\* written from, when it is a pointer
ResolveFragment(path, fragment) ==
    /\ Len(history) < MaxFragments
    /\ \E res \in {resolve_fragment(instance, fragment)} :
           history' = Append(history,
               [ path |-> path, fragment |-> fragment, exc |-> res.exc, v |-> res.v ])
    /\ UNCHANGED <<registry, validator, instance, resolver, fresh, pass, results,
                   ncalls>>

NextFragment ==
    \/ \E path \in Walks(instance) \cup Astray : ResolveFragment(path, Pointer(path))
    \/ \E name \in Names : ResolveFragment(<<>>, name)

SpecFragment == InitFragment /\ [][NextFragment]_vars

\* the call resolved the pointer of a path
OfPath(h) == h.fragment = Pointer(h.path)

\* C14 as stated: the pointer of every path of the document resolves to the
\* node the path leads to, keys that are empty, that are names of anchors
\* and that look like indices included
C14_PointerRoundTrips ==
    \A i \in 1..Len(history) :
        ( OfPath(history[i]) /\ history[i].path \in Walks(instance) )
        => ( /\ history[i].exc = ""
             /\ history[i].v = At(instance, history[i].path) )

\* every segment of the path is a key with a "/" or a "~" in it
Escaped(path) ==
    /\ path # <<>>
    /\ \A i \in 1..Len(path) : \E j \in 1..Len(path[i]) : path[i][j] \in {"/", "~"}

\* C15 as stated: a mapping key with "/" or "~" in it is reached by the
\* segment in which each "~" is written "~0" and each "/" is written "~1":
\* the pointer of a path of such keys resolves to the node the path leads to
C15_UnescapingIsCorrect ==
    \A i \in 1..Len(history) :
        ( /\ OfPath(history[i]) /\ history[i].path \in Walks(instance)
          /\ Escaped(history[i].path) )
        => ( /\ history[i].exc = ""
             /\ history[i].v = At(instance, history[i].path) )

\* C16 as stated: the pointer of a path that leads nowhere (a key the
\* mapping has not, an index outside 0..len-1, negative ones included, a
\* segment that is no integer under an array, a step into a node that is no
\* container) fails with RefResolutionError and returns nothing
C16_UnresolvableFails ==
    \A i \in 1..Len(history) :
        ( OfPath(history[i]) /\ history[i].path \notin Walks(instance) )
        => history[i].exc = "RefResolutionError"

\* some mapping of the document, under mappings and arrays alike, has the
\* name as its "$anchor" or "$dynamicAnchor"
RECURSIVE HasAnchor(_, _)
HasAnchor(document, name) ==
    IF isdict(document)
    THEN \/ \E keyword \in {S_anchor, S_dynamicAnchor} :
               haskey(document, keyword) /\ getitem(document, keyword) = Str(name)
         \/ \E i \in 1..Len(document.v) : HasAnchor(document.v[i].v, name)
    ELSE IF document.t = "list"
    THEN \E i \in 1..Len(document.v) : HasAnchor(document.v[i], name)
    ELSE FALSE

\* C20 as stated: the tree search visits every mapping of the document,
\* those that are elements of arrays included, so the name of an anchor
\* declared at any depth resolves to a mapping that declares it
C20_TreeSearchVisitsArrays ==
    \A i \in 1..Len(history) :
        ( /\ history[i].path = <<>> /\ history[i].fragment # <<>>
          /\ HasAnchor(instance, history[i].fragment) )
        => ( /\ history[i].exc = ""
             /\ isdict(history[i].v)
             /\ \E keyword \in {S_anchor, S_dynamicAnchor} :
                   /\ haskey(history[i].v, keyword)
                   /\ getitem(history[i].v, keyword) = Str(history[i].fragment) )

----------------------------------------------------------------------------
(* Direct use of the scope stack: a caller pushes and pops scopes on a     *)
(* resolver it constructed                                                 *)

MaxScopeCalls == 4

\* the scopes pushed: an absolute URL, a relative one, the empty one
Scopes == { U_A, <<"s">>, <<>> }

InitScopes ==
    /\ \E referrer \in {Root_plain, Root_L} :
          resolver = RefResolver(get(referrer, S_id, Str(<<>>)).v, referrer, <<>>,
                                 TRUE, Handlers, lru_maxsize, NoSchemas)
    /\ history = <<>>
    /\ registry = EmptyRegistry
    /\ validator = [cls |-> LATEST_VERSION, schema |-> JTrue]
    /\ instance = None
    /\ fresh = resolver
    /\ pass = Idle
    /\ results = NoResults
    /\ ncalls = 0

ScopeCall(op, scope, res) ==
    /\ Len(history) < MaxScopeCalls
    /\ resolver' = res.r
    /\ history' = Append(history,
           [ op     |-> op,
             scope  |-> scope,
             before |-> resolver.scopes_stack,
             after  |-> res.r.scopes_stack,
             exc    |-> res.exc ])
    /\ UNCHANGED <<registry, validator, instance, fresh, pass, results, ncalls>>

PushScope(scope) == ScopeCall("push_scope", scope, push_scope(resolver, scope))

PopScope == ScopeCall("pop_scope", <<>>, pop_scope(resolver))

NextScopes == (\E scope \in Scopes : PushScope(scope)) \/ PopScope

SpecScopes == InitScopes /\ [][NextScopes]_vars

\* the calls of `op` before call i that returned
Returned(op, i) ==
    Cardinality({ j \in 1..(i - 1) : history[j].op = op /\ history[j].exc = "" })

\* call i is a pop_scope with no push_scope left to match it
Unmatched(i) ==
    /\ history[i].op = "pop_scope"
    /\ Returned("pop_scope", i) >= Returned("push_scope", i)

\* C17 as stated: a pop_scope with an earlier push_scope to match removes
\* the top entry; one without fails with RefResolutionError and leaves the
\* stack, the entry of the base URI included, as it was
C17_UnmatchedPopFails ==
    \A i \in 1..Len(history) :
        history[i].op = "pop_scope" =>
            IF Unmatched(i)
            THEN history[i].exc = "RefResolutionError"
                 /\ history[i].after = history[i].before
            ELSE history[i].exc = ""
                 /\ history[i].after
                      = SubSeq(history[i].before, 1, Len(history[i].before) - 1)

\* C17: pop_scope removes exactly the top entry of the scope stack, the
\* entry of the base URI included; it fails with RefResolutionError exactly
\* when the stack is empty, and leaves it empty
C17_PopRemovesTop ==
    \A i \in 1..Len(history) :
        history[i].op = "pop_scope" =>
            IF history[i].before = <<>>
            THEN history[i].exc = "RefResolutionError" /\ history[i].after = <<>>
            ELSE history[i].exc = ""
                 /\ history[i].after
                      = SubSeq(history[i].before, 1, Len(history[i].before) - 1)

\* on a resolver fresh from its constructor, a first pop_scope returned and
\* removed the entry of the base URI, and a second one failed
C17_Witness ==
    /\ Len(history) >= 2
    /\ Unmatched(1)
    /\ history[1].before = fresh.scopes_stack /\ Len(history[1].before) = 1
    /\ history[1].exc = "" /\ history[1].after = <<>>
    /\ history[2].op = "pop_scope"
    /\ history[2].exc = "RefResolutionError" /\ history[2].after = <<>>

----------------------------------------------------------------------------
(* References into the referrer: a resolver made by from_schema for a      *)
(* schema whose subschemas carry ids resolves references to those ids      *)

MaxLocals == 2

\* http://l/a and http://l/b, the ids of two subschemas of the referrer
U_LA == Http \o <<":", "/", "/", "l", "/", "a">>

U_LB == Http \o <<":", "/", "/", "l", "/", "b">>

P_de == <<"/", "d", "/", "e">>

P_type == <<"/">> \o S_type

\* a schema with the id http://l/r whose subschema d/a has the relative id
\* "a" and an empty subschema d/e of its own, and whose allOf lists a
\* subschema with the id http://l/b; `keyword` is "$id" or "id"
Referrer(keyword) ==
    Dict(<< kv(keyword, Str(U_L)),
            kv(<<"d">>, Dict(<<
                kv(<<"a">>, Dict(<< kv(keyword, Str(<<"a">>)),
                                   kv(S_type, T_integer),
                                   kv(<<"d">>, Dict(<< kv(<<"e">>, Dict(<<>>)) >>)) >>))
                >>)),
            kv(S_allOf, List(<< Dict(<< kv(keyword, Str(U_LB)),
                                        kv(S_minimum, Num(1)) >>) >>)) >>)

LocalRefs ==
    { U_LA, <<"a">>, Frag(U_LA, P_de), Frag(U_LA, P_type), Frag(U_LA, P_dz),
      U_LB, Frag(U_A, P_dp) }

\* the id keyword of the class: what its id_of reads
id_keyword(cls) == IF cls.ID_OF = "_id_of" THEN S_id ELSE S_id_draft3

InitLocal ==
    /\ registry = ImportedRegistry
    /\ \E cls \in {Draft4Validator, Draft7Validator} :
          validator = [cls |-> cls, schema |-> Referrer(id_keyword(cls))]
    /\ \E store \in { <<>>, << <<U_LA, Doc_S>> >> } :
          resolver = RefResolver(id_of(validator.cls, validator.schema).v,
                                 validator.schema, store, TRUE, Handlers,
                                 lru_maxsize, store_schema_list(registry))
    /\ history = <<>>
    /\ instance = None
    /\ fresh = resolver
    /\ pass = Idle
    /\ results = NoResults
    /\ ncalls = 0

ResolveLocally(ref, fetch) ==
    /\ Len(history) < MaxLocals
    /\ \E res \in {resolve(resolver, ref, fetch)} :
           /\ resolver' = res.r
           /\ history' = Append(history,
                  [ ref      |-> ref,
                    scope    |-> resolution_scope(resolver),
                    url      |-> rstrip(urljoin(resolution_scope(resolver), ref), "/"),
                    exc      |-> res.exc,
                    resolved |-> IF res.exc = "" THEN res.v.resolved ELSE Null,
                    fetched  |-> Len(res.r.fetches) - Len(resolver.fetches) ])
    /\ UNCHANGED <<registry, validator, instance, fresh, pass, results, ncalls>>

NextLocal == \E ref \in LocalRefs, fetch \in {"ok", "raise"} : ResolveLocally(ref, fetch)

SpecLocal == InitLocal /\ [][NextLocal]_vars

\* every mapping of the document, under mappings and arrays alike
RECURSIVE Mappings(_)
Mappings(document) ==
    IF isdict(document)
    THEN <<document>>
         \o concat([i \in 1..Len(document.v) |-> Mappings(document.v[i].v)])
    ELSE IF document.t = "list"
    THEN concat([i \in 1..Len(document.v) |-> Mappings(document.v[i])])
    ELSE <<>>

\* the mappings of the referrer whose own id, joined against the scope of
\* the call, is the URL resolved, a trailing slash aside
Identified(h) ==
    LET keyword == id_keyword(validator.cls)
        found   == Mappings(validator.schema)
    IN  { i \in 1..Len(found) :
            /\ haskey(found[i], keyword)
            /\ rstrip(urljoin(h.scope, getitem(found[i], keyword).v), "/")
                  = rstrip(urldefrag(h.url).url, "/") }

\* C19 as stated: when a subdocument of the referrer has the id resolved,
\* whatever the id keyword of the variant, resolve() returns it, with the
\* fragment resolved inside it, whatever its value, and fetches nothing and
\* takes nothing from the store
C19_LocalBeforeRemote ==
    \A i \in 1..Len(history) :
        Identified(history[i]) # {} =>
            /\ history[i].fetched = 0
            /\ \E j \in Identified(history[i]) :
                  LET want == resolve_fragment(Mappings(validator.schema)[j],
                                               urldefrag(history[i].url).fragment)
                  IN  /\ history[i].exc = want.exc
                      /\ want.exc = "" => history[i].resolved = want.v

----------------------------------------------------------------------------
(* The diagnostics of a pass: iter_errors consumed to its end on schemas   *)
(* that exercise the schema path, descend, references and a cycle          *)

S_then == <<"t", "h", "e", "n">>

S_else == <<"e", "l", "s", "e">>

P_d == <<"/", "d">>

\* a property with the empty name, allOf with a reference in it, a
\* conditional, and keywords without a callable
K_paths ==
    Dict(<< kv(S_properties, Dict(<< kv(<<>>, Dict(<< kv(S_minimum, Num(1)) >>)) >>)),
            kv(S_allOf, List(<< Dict(<< kv(S_type, T_string) >>),
                                Dict(<< kv(S_ref, Str(Frag(<<>>, P_d))) >>) >>)),
            kv(S_if, Dict(<< kv(S_type, T_integer) >>)),
            kv(S_then, Dict(<< kv(S_minimum, Num(5)) >>)),
            kv(S_else, Dict(<< kv(S_type, T_array) >>)),
            kv(<<"d">>, Dict(<< kv(S_type, T_object) >>)) >>)

\* a keyword next to a reference
K_siblings ==
    Dict(<< kv(S_ref, Str(Frag(<<>>, P_d))),
            kv(S_minimum, Num(5)),
            kv(<<"d">>, Dict(<< kv(S_type, T_integer) >>)) >>)

\* a reference to the schema it is in
K_cycle == Dict(<< kv(S_ref, Str(<<"#">>)) >>)

\* relative ids: the schema is d/x, and its subschema y is referred to
K_relative ==
    Dict(<< kv(S_id, Str(<<"d", "/", "x">>)),
            kv(S_allOf, List(<< Dict(<< kv(S_ref, Str(<<"y">>)) >>) >>)),
            kv(<<"d">>, Dict(<< kv(S_id, Str(<<"y">>)), kv(S_type, T_integer) >>)) >>)

\* a reference to a subschema whose keyword raises
K_raises ==
    Dict(<< kv(S_allOf, List(<< Dict(<< kv(S_ref, Str(Frag(<<>>, P_d))) >>) >>)),
            kv(<<"d">>, Dict(<< kv(S_type, Str(<<"f", "o", "o">>)) >>)) >>)

KeywordSchemas == { K_paths, K_siblings, K_cycle, K_relative, K_raises }

KeywordInstances == { Num(1), Str(<<"s">>), Dict(<< kv(<<>>, Num(0)) >>) }

InitKeywords ==
    /\ registry = ImportedRegistry
    /\ \E cls \in {Draft4Validator, Draft7Validator, Draft202012Validator},
          schema \in KeywordSchemas :
          /\ validator = [cls |-> cls, schema |-> schema]
          /\ resolver = from_schema(registry, cls, schema)
    /\ instance \in KeywordInstances
    /\ fresh = resolver
    /\ pass = Idle
    /\ results = NoResults
    /\ ncalls = 0
    /\ history = <<>>

NextKeywords ==
    \/ CallOnInstance("iter_errors")
    \/ \E fetch \in {"ok", "raise"} :
          \/ Advance(fetch)
          \/ Raises(fetch)
          \/ Yields(fetch)
          \/ Exhausts(fetch)

SpecKeywords == InitKeywords /\ [][NextKeywords]_vars

\* the keyword a suspended iter_errors frame is at
KeywordAt(cls, fr) == applicable_validators(cls, fr.schema)[fr.st].k

\* the schema path of a diagnostic made under the frames: from the
\* outermost iter_errors inwards, the segment its descend was given, when
\* it is not None, and then the keyword the frame is at, unless it is
\* "$ref" or "if"
SchemaPathUnder(cls, frames) ==
    concat([i \in 1..Len(frames) |->
              IF frames[i].f # "iter_errors" THEN <<>>
              ELSE (IF frames[i].schema_path # None THEN <<frames[i].schema_path>>
                    ELSE <<>>)
                   \o (IF frames[i].st = 0
                           \/ KeywordAt(cls, frames[i]) \in {S_if, S_ref} THEN <<>>
                       ELSE <<Str(KeywordAt(cls, frames[i]))>>)])

\* the innermost frame is an iter_errors at a keyword without a callable
AtUnregistered ==
    /\ pass.op # ""
    /\ pass.frames[Len(pass.frames)].f = "iter_errors"
    /\ pass.frames[Len(pass.frames)].st \in
          1..Len(applicable_validators(pass.cls, pass.frames[Len(pass.frames)].schema))
    /\ KeywordAt(pass.cls, pass.frames[Len(pass.frames)]) \notin DOMAIN pass.cls.VALIDATORS

\* C21: in every step that yields a diagnostic, the schema path of the
\* diagnostic has the keyword of each iter_errors it came through exactly
\* once, in front of what the callable set, except "$ref" and "if", which
\* are not in it; a step at a keyword without a callable yields nothing and
\* moves to the next keyword
C21_KeywordPrepended ==
    [][ /\ ( pass.op # ""
             /\ Len(IF pass'.op # "" THEN pass'.out ELSE results'[pass.op].out)
                   = Len(pass.out) + 1 )
           => (IF pass'.op # "" THEN pass'.out[Len(pass'.out)]
               ELSE results'[pass.op].out[Len(pass.out) + 1]).schema_path
                 = SchemaPathUnder(pass.cls, pass.frames)
        /\ AtUnregistered
           => /\ pass'.out = pass.out
              /\ pass'.frames = [pass.frames EXCEPT ![Len(pass.frames)].st = @ + 1]
              /\ resolver' = resolver ]_vars

\* a draft 7 pass on the number 1 yielded diagnostics of a keyword under
\* allOf, of a keyword reached through "$ref", and of "then" under "if"
C21_Witness ==
    /\ results["iter_errors"].done /\ results["iter_errors"].exc = ""
    /\ results["iter_errors"].schema = K_paths
    /\ results["iter_errors"].version = "draft7"
    /\ results["iter_errors"].instance = Num(1)
    /\ Len(results["iter_errors"].out) = 3
    /\ results["iter_errors"].out[1].schema_path = <<Str(S_allOf), Num(0), Str(S_type)>>
    /\ results["iter_errors"].out[2].schema_path = <<Str(S_allOf), Num(1), Str(S_type)>>
    /\ results["iter_errors"].out[3].schema_path = <<Str(S_then), Str(S_minimum)>>

\* the pass of the frames consumed to its end: its diagnostics in order, and
\* the exception that ended it
RECURSIVE run(_, _, _, _)
run(cls, frames, r, out) ==
    LET step(m) ==
            IF m.exc # "" THEN [exc |-> m.exc, out |-> out]
            ELSE IF m.frames = <<>> THEN [exc |-> "", out |-> out \o m.out]
            ELSE run(cls, m.frames, m.r, out \o m.out)
    IN  step(advance(cls, frames, r, "ok"))

\* the innermost frame is the iter_errors a descend has just called
Descended ==
    /\ pass.op # "" /\ Len(pass.frames) > 1
    /\ pass.frames[Len(pass.frames)].f = "iter_errors"
    /\ pass.frames[Len(pass.frames)].st = 0

Prefix(segment) == IF segment # None THEN <<segment>> ELSE <<>>

\* C22: whenever a keyword callable calls descend(instance, schema, path,
\* schema_path), what descend yields is what iter_errors(instance, schema)
\* yields, in the same order and ending the same way, each diagnostic with
\* path in front of its instance path and schema_path in front of its
\* schema path when the segment is not None (0 and "" are in front too)
C22_DescendPrefixes ==
    Descended =>
        LET fr == pass.frames[Len(pass.frames)]
            same(inner, outer) ==
                /\ outer.exc = inner.exc
                /\ Len(outer.out) = Len(inner.out)
                /\ \A i \in 1..Len(inner.out) :
                      /\ outer.out[i].path = Prefix(fr.path) \o inner.out[i].path
                      /\ outer.out[i].schema_path
                            = Prefix(fr.schema_path) \o inner.out[i].schema_path
                      /\ outer.out[i].validator = inner.out[i].validator
        IN  same(run(pass.cls, <<Frame_iter(fr.schema, fr.instance, None, None)>>,
                     Current, <<>>),
                 run(pass.cls, <<fr>>, Current, <<>>))

\* a pass on an object with the property "" yielded the diagnostic of that
\* property, "" in both of its paths, and one of the first subschema of
\* allOf, 0 in its schema path and nothing in its instance path
C22_Witness ==
    /\ results["iter_errors"].done /\ results["iter_errors"].exc = ""
    /\ results["iter_errors"].schema = K_paths
    /\ results["iter_errors"].instance = Dict(<< kv(<<>>, Num(0)) >>)
    /\ Len(results["iter_errors"].out) >= 2
    /\ results["iter_errors"].out[1].path = <<Str(<<>>)>>
    /\ results["iter_errors"].out[1].schema_path
          = <<Str(S_properties), Str(<<>>), Str(S_minimum)>>
    /\ results["iter_errors"].out[2].path = <<>>
    /\ results["iter_errors"].out[2].schema_path = <<Str(S_allOf), Num(0), Str(S_type)>>

\* where on the scope stack the entry of frame i is, when it pushed one
EntryOf(i) ==
    Len(pass.before) + Cardinality({ j \in 1..i : pass.frames[j].pushed })

\* C23 as stated: while the body of resolving(ref) runs, the entry it
\* pushed is the URL resolve(ref) returned, the reference joined to the
\* scope below it, and the entries the pass started with are below,
\* unchanged; a pass that ended, by raising too, left the stack as it was
C23_ResolvingBalanced ==
    /\ pass.op # "" =>
          /\ SubSeq(Current.scopes_stack, 1, Len(pass.before)) = pass.before
          /\ \A i \in 1..Len(pass.frames) :
                ( pass.frames[i].f = "keyword" /\ pass.frames[i].callable = "ref"
                  /\ pass.frames[i].pushed )
                => Current.scopes_stack[EntryOf(i)]
                     = rstrip(urljoin(Current.scopes_stack[EntryOf(i) - 1],
                                      pass.frames[i].v.v), "/")
    /\ results["iter_errors"].done
          => results["iter_errors"].after = results["iter_errors"].before

\* the frames of the pass that are reference callables in their body
Reentries == { i \in 1..Len(pass.frames) : pass.frames[i].callable = "ref"
                                            /\ pass.frames[i].pushed }

\* C24 as stated: a pass on a schema that refers to itself never ends
C24_CycleNeverEnds ==
    validator.schema = K_cycle => ~results["iter_errors"].done

\* C24: a pass on a schema that refers to itself re-enters iter_errors
\* with one more entry on the scope stack each time and yields nothing;
\* the engine sets no bound, and the pass ends when the interpreter's
\* recursion limit is reached: with RecursionError, never with
\* RefResolutionError, and with the scope stack as it was
C24_CycleEndsAtRecursionLimit ==
    validator.schema = K_cycle =>
        /\ pass.op # "" =>
              /\ pass.out = <<>>
              /\ Len(Current.scopes_stack) = Len(pass.before) + Cardinality(Reentries)
              /\ 2 * Cardinality(Reentries) + 1 <= Len(pass.frames)
        /\ results["iter_errors"].done =>
              /\ results["iter_errors"].exc = "RecursionError"
              /\ results["iter_errors"].out = <<>>
              /\ results["iter_errors"].deepest
                    = Len(results["iter_errors"].before) + (RecursionLimit - 1) \div 2
              /\ results["iter_errors"].after = results["iter_errors"].before

\* the pass on the schema that refers to itself ended with RecursionError
\* after it had pushed a scope for each re-entry the interpreter allowed
C24_Witness ==
    /\ validator.schema = K_cycle
    /\ results["iter_errors"].done
    /\ results["iter_errors"].exc = "RecursionError"
    /\ results["iter_errors"].deepest > Len(results["iter_errors"].before) + 1

\* C26 as stated: the class extend makes of the engine's class with an
\* empty overlay yields, for the schema and the instance of a pass that
\* ended, the diagnostics the pass yielded, in the same order
C26_EmptyExtendIsEquivalent ==
    results["iter_errors"].done =>
        LET same(derived) ==
                /\ derived.exc = results["iter_errors"].exc
                /\ derived.out = results["iter_errors"].out
            of(cls) ==
                same(run(cls, <<Frame_iter(validator.schema, instance, None, None)>>,
                         from_schema(registry, cls, validator.schema), <<>>))
        IN  of(extend(registry, validator.cls, <<>>, "", "None").cls)


----------------------------------------------------------------------------
(* Two passes in progress at once: two generators of iter_errors, of one   *)
(* schema, each advanced a step at a time in any order (two threads, or    *)
(* two generators consumed alternately).  `pass` holds the two generators, *)
(* `resolver` is the resolver of the first engine and `fresh` that of the  *)
(* second when it was made without one; `history` holds, for each          *)
(* resolver, which pass pushed each entry of its stack (0: the base URI),  *)
(* and `results` what each pass has met of the other.                      *)

Passes == {1, 2}

InterleavedSchemas == { K_paths, K_relative, K_raises, Schema_nested }

\* a resolver_of for which every engine has the resolver of the first
resolver_of_first(on) == resolver

\* self.resolver of the engine of a pass
resolver_of(on) == IF on = "fresh" THEN fresh ELSE resolver

\* the generator iter_errors(instance) returns, not yet started
Generator(on, inst) ==
    [ on |-> on, instance |-> inst,
      frames |-> <<Frame_iter(validator.schema, inst, None, None)>>,
      out |-> <<>>, exc |-> "", isteps |-> 0 ]

InitInterleaved ==
    /\ registry = ImportedRegistry
    /\ \E schema \in InterleavedSchemas :
          /\ validator = [cls |-> Draft7Validator, schema |-> schema]
          /\ resolver = from_schema(registry, Draft7Validator, schema)
          /\ fresh = from_schema(registry, Draft7Validator, schema)
    /\ instance = Num(1)
    /\ \E on \in {"resolver", "fresh"}, inst \in {Num(1), Str(<<"s">>)} :
          pass = << Generator("resolver", instance), Generator(on, inst) >>
    /\ results = [i \in Passes |-> [resolved_under_other |-> FALSE,
                                    popped_other |-> FALSE]]
    /\ history = [on \in {"resolver", "fresh"} |-> <<0>>]
    /\ ncalls = 0

\* one step of a generator on a resolver: the generator and the resolver
\* afterwards; an exception ends the generator and runs its finally blocks
step(cls, p, r) ==
    LET stepped(m) ==
            IF m.exc # ""
            THEN [ p |-> [p EXCEPT !.frames = <<>>, !.exc = m.exc, !.isteps = @ + 1],
                   r |-> unwind(m.frames, m.r) ]
            ELSE [ p |-> [p EXCEPT !.frames = m.frames, !.out = @ \o m.out,
                                   !.isteps = @ + 1],
                   r |-> m.r ]
    IN  stepped(advance(cls, p.frames, r, "ok"))

\* the owners of the entries of a stack that had the owners o and has n
\* entries after a step of pass i
Owners(o, n, i) ==
    IF n <= Len(o) THEN SubSeq(o, 1, n)
    ELSE o \o [k \in 1..(n - Len(o)) |-> i]

\* the step is the resolve of a reference
Resolves(p) ==
    LET fr == p.frames[Len(p.frames)]
    IN  fr.f = "keyword" /\ fr.callable = "ref" /\ fr.st = 1

Interleave(i, s) ==
    LET p == pass[i]
        o == history[p.on]
        n == Len(s.r.scopes_stack)
    IN  /\ pass' = [pass EXCEPT ![i] = s.p]
        /\ IF p.on = "fresh" THEN fresh' = s.r /\ UNCHANGED resolver
           ELSE resolver' = s.r /\ UNCHANGED fresh
        /\ history' = [history EXCEPT ![p.on] = Owners(o, n, i)]
        /\ results' = [results EXCEPT
              ![i].resolved_under_other =
                  @ \/ (Resolves(p) /\ o[Len(o)] \notin {0, i}),
              ![i].popped_other =
                  @ \/ \E k \in (n + 1)..Len(o) : o[k] # i]
        /\ ncalls' = ncalls + 1
        /\ UNCHANGED <<registry, validator, instance>>

\* pass i is advanced by a step that raises nothing
Proceeds(i) ==
    /\ pass[i].frames # <<>>
    /\ \E s \in {step(validator.cls, pass[i], resolver_of(pass[i].on))} :
          s.p.exc = "" /\ Interleave(i, s)

\* pass i is advanced by a step that raises
Fails(i) ==
    /\ pass[i].frames # <<>>
    /\ \E s \in {step(validator.cls, pass[i], resolver_of(pass[i].on))} :
          s.p.exc # "" /\ Interleave(i, s)

NextInterleaved == \E i \in Passes : Proceeds(i) \/ Fails(i)

SpecInterleaved == InitInterleaved /\ [][NextInterleaved]_vars

\* a generator and its resolver after k steps with nothing else running
RECURSIVE alone(_, _, _, _)
alone(cls, p, r, k) ==
    IF k = 0 \/ p.frames = <<>> THEN [p |-> p, r |-> r]
    ELSE LET go(s) == alone(cls, s.p, s.r, k - 1)
         IN  go(step(cls, p, r))

Alone(i, r) ==
    LET same(a) == a.p = pass[i] /\ a.r = r
    IN  same(alone(validator.cls, Generator(pass[i].on, pass[i].instance),
                   from_schema(registry, validator.cls, validator.schema),
                   pass[i].isteps))

\* C25: when each of two interleaved passes has its own resolver, after
\* any interleaving each generator and its resolver are as they are after
\* as many steps of that pass with nothing else running, no pass has
\* resolved a reference under a scope of the other and none has popped an
\* entry of the other
C25_OwnResolversIsolated ==
    pass[2].on = "fresh" =>
        /\ Alone(1, resolver) /\ Alone(2, fresh)
        /\ \A i \in Passes :
              ~results[i].resolved_under_other /\ ~results[i].popped_other

\* two passes on one resolver, both in progress: one has resolved a
\* reference while the top of the stack was a scope the other pushed, and
\* one has popped an entry the other pushed
C25_Witness ==
    /\ pass[2].on = "resolver"
    /\ \E i \in Passes : results[i].resolved_under_other
    /\ \E i \in Passes : results[i].popped_other

\* two passes with a resolver each, both started and neither at its end
C25_OwnInterleaved ==
    /\ pass[2].on = "fresh"
    /\ \A i \in Passes : pass[i].isteps > 0 /\ pass[i].frames # <<>>
    /\ Len(resolver.scopes_stack) > 1 /\ Len(fresh.scopes_stack) > 1

====
